---- MODULE Spec2Model ----
(***************************************************************************)
(* Factory Flow: the pricing resolver (calculateOrderCost,                 *)
(* calculateProductCost), the REST entity store and the pages that use     *)
(* them.                                                                   *)
(*                                                                         *)
(* Numbers.  JavaScript numbers that carry decimals are held in fixed      *)
(* point, one unit per field:                                              *)
(*   Material.cost               in half-cents   (1 = 0.005)               *)
(*   Product.materials.quantity  in halves       (1 = 0.5)                 *)
(*   Order.products.quantity     an integer, as parseInt leaves it         *)
(*   Order.totalCost             in quarter-cents (1 = 0.0025)             *)
(* so that material.cost * matQty * quantity is the integer product of the *)
(* three fields, exactly.  Fields the operations only carry along (unit,   *)
(* stock, createdAt, surname, phone, leftovers) are left out of the        *)
(* records.                                                                *)
(*                                                                         *)
(* Specifications.                                                         *)
(*   SpecResolver  the two cost resolvers on drawn inputs                  *)
(*   SpecApi       the API server and its MySQL tables, any client         *)
(*   SpecUsers     one browser tab on the started server: Index,           *)
(*                 LoginPage, Layout and UsersPage                         *)
(*   SpecApp       the tab after the admin's login, with UsersPage,        *)
(*                 OrdersPage and ProductsPage, and another client that    *)
(*                 deletes orders                                          *)
(*   SpecLocal     MaterialsPage over localStorage in two browser tabs     *)
(*   SpecStore     MaterialsPage and ProductsPage over localStorage, one   *)
(*                 instance of each                                        *)
(*   SpecServer    the server process from start(), over a database that   *)
(*                 can become unreachable                                  *)
(*   SpecOrders    OrdersPage editing and deleting a stored order, while   *)
(*                 another client changes a material                       *)
(*   SpecOverlap   OrdersPage with two of its handlers awaiting at a time  *)
(*                                                                         *)
(* Pages.  Index shows one page at a time, so the tab has one dialog: its  *)
(* open flag and form data are the state of the page that is mounted.  In  *)
(* SpecLocal the text typed into MaterialsPage's dialog is the input of    *)
(* the submit handler and only editingMaterial is kept.  An awaited API    *)
(* call takes three steps: the handler up to its await, the server's route *)
(* handler, the handler's continuation.  The user waits for the answer     *)
(* before starting another call (except in SpecOverlap, where a second     *)
(* handler is started meanwhile), but may navigate, log out, reload or use *)
(* the dialog meanwhile.  LoginPage reads the users through the library    *)
(* of the localStorage build; the model lets it read the one user store    *)
(* there is, the users table.                                              *)
(***************************************************************************)
EXTENDS Integers, Sequences, FiniteSets, TLC

(***************************************************************************)
(* Bounds and value sets                                                   *)
(***************************************************************************)
MaxQty == 2
\* Rows in the database, all tables together, and products in localStorage.
MaxRows == 2
\* The largest Material.cost a request carries, in half-cents.
MaxCost == 2
\* The largest Order.totalCost a request carries, in quarter-cents.
MaxTotal == 2

UserIds == {"00000000-0000-0000-0000-000000000001", "u2"}
MaterialIds == {"m1", "m2"}
ProductIds == {"p1", "p2"}
OrderIds == {"o1", "o2"}

Emails == {"admin@company.com", "b@x"}
Roles == {"admin", "manager", "employee"}
Statuses == {"pending", "in-progress", "completed"}

Quantities == 1..MaxQty

\* JavaScript's undefined: what Array.prototype.find returns on no match, and
\* the value of an optional field that is not set.
undefined == [type |-> "undefined"]

VARIABLES
  rMaterials,   \* resolver input: Material[]
  rProducts,    \* resolver input: Product[]
  rOrder,       \* resolver input: the order's products, { productId, quantity }[]
  rOut,         \* what the call of calculateOrderCost returned
  rProductOut   \* what the call of calculateProductCost returned

varsResolver == <<rMaterials, rProducts, rOrder, rOut, rProductOut>>

VARIABLES
  dbUsers,      \* table users: the rows, in insertion order
  dbMaterials,  \* table materials
  dbProducts,   \* table products
  dbOrders,     \* table orders
  response      \* the API server's answer to the last request

varsDb == <<dbUsers, dbMaterials, dbProducts, dbOrders>>
varsApi == <<varsDb, response>>

VARIABLES
  currentUser,  \* localStorage manufacturing_current_user: the session's User or null
  isLoggedIn,   \* Index: the login state
  currentPage,  \* Index: the page shown
  toast,        \* the toast shown last
  users,        \* UsersPage: the list state
  editingUser,  \* UsersPage: the user the dialog edits, or null
  inflight,     \* the API call the browser is waiting for, with its continuation
  dialog,       \* the mounted page's isDialogOpen and formData
  waiting       \* another awaiting handler of the page, while `inflight` takes its steps

varsBrowser ==
  <<currentUser, isLoggedIn, currentPage, toast, users, editingUser, inflight, dialog,
    waiting>>

VARIABLES
  storageMaterials,  \* localStorage manufacturing_materials, parsed
  tabs               \* per browser tab: MaterialsPage's materials and editingMaterial

varsLocal == <<storageMaterials, tabs>>

VARIABLES
  ordersPage,       \* OrdersPage: orders, products, materials and editingOrder
  productsPage,     \* ProductsPage: products and editingProduct
  storageProducts   \* localStorage manufacturing_products, parsed

varsPages == <<ordersPage, productsPage, storageProducts>>

VARIABLES
  server,   \* the API server process: "starting", "listening" or "exited"
  mysql     \* whether the pool's queries reach the database: "up" or "down"

varsServer == <<server, mysql>>

vars == <<varsResolver, varsApi, varsBrowser, varsLocal, varsPages, varsServer>>

\* The server listens and the database answers its queries.
ServerUp ==
  /\ server = "listening"
  /\ mysql = "up"

(***************************************************************************)
(* Helpers on sequences                                                    *)
(***************************************************************************)
Range(s) == {s[i] : i \in DOMAIN s}

RemoveAt(s, i) == SubSeq(s, 1, i - 1) \o SubSeq(s, i + 1, Len(s))

\* The sequences over S of the given length that repeat no key.
RECURSIVE SeqsByKey(_, _)
SeqsByKey(keys, n) ==
  IF n = 0 THEN {<<>>}
  ELSE {<<>>} \cup
       UNION {{<<k>> \o t : t \in SeqsByKey(keys \ {k}, n - 1)} : k \in keys}

\* Array.prototype.find(x => x.id === id): the first match, or undefined.
find(arr, id) ==
  IF \E i \in DOMAIN arr : arr[i].id = id
  THEN arr[CHOOSE i \in DOMAIN arr :
             /\ arr[i].id = id
             /\ \A j \in 1..(i - 1) : arr[j].id # id]
  ELSE undefined

(***************************************************************************)
(* Pricing resolver                                                        *)
(***************************************************************************)
\* Mutant of reduceProductCost: a missing material is priced at a default
\* unit cost of 1 instead of being skipped.
RECURSIVE reduceProductCost_DefaultCost(_, _, _)
reduceProductCost_DefaultCost(sum, productMaterials, materials) ==
  IF productMaterials = <<>> THEN sum
  ELSE LET pm == Head(productMaterials)
           material == find(materials, pm.materialId)
       IN reduceProductCost_DefaultCost(
            sum + (IF material # undefined THEN material.cost * pm.quantity
                   ELSE pm.quantity),
            Tail(productMaterials), materials)

\* ProductsPage.calculateProductCost: reduce((sum, pm) => sum + (material ?
\* material.cost * pm.quantity : 0), 0), materials being the page's list.
RECURSIVE reduceProductCost(_, _, _)
reduceProductCost(sum, productMaterials, materials) ==
  IF productMaterials = <<>> THEN sum
  ELSE LET pm == Head(productMaterials)
           material == find(materials, pm.materialId)
       IN reduceProductCost(
            sum + (IF material # undefined THEN material.cost * pm.quantity ELSE 0),
            Tail(productMaterials), materials)

\* Mutant of calculateProductCost: the reduce is seeded with 1.
calculateProductCost_SeedOne(productMaterials, materials) ==
  reduceProductCost(1, productMaterials, materials)

calculateProductCost(productMaterials, materials) ==
  reduceProductCost(0, productMaterials, materials)

\* Mutant of forEachMaterial: the material line's own quantity is left out of
\* the product.
RECURSIVE forEachMaterial_DropsMatQty(_, _, _, _)
forEachMaterial_DropsMatQty(totalCost, productMaterials, quantity, materials) ==
  IF productMaterials = <<>> THEN totalCost
  ELSE LET line == Head(productMaterials)
           material == find(materials, line.materialId)
       IN forEachMaterial_DropsMatQty(
            IF material # undefined
            THEN totalCost + material.cost * quantity
            ELSE totalCost,
            Tail(productMaterials), quantity, materials)

\* Mutant of forEachMaterial: the order line's quantity is added, not
\* multiplied.
RECURSIVE forEachMaterial_AddsQuantity(_, _, _, _)
forEachMaterial_AddsQuantity(totalCost, productMaterials, quantity, materials) ==
  IF productMaterials = <<>> THEN totalCost
  ELSE LET line == Head(productMaterials)
           material == find(materials, line.materialId)
       IN forEachMaterial_AddsQuantity(
            IF material # undefined
            THEN totalCost + material.cost * line.quantity + quantity
            ELSE totalCost,
            Tail(productMaterials), quantity, materials)

\* calculateOrderCost, inner forEach: one product's material lines added to
\* the running totalCost, each multiplied by the order line's quantity.
RECURSIVE forEachMaterial(_, _, _, _)
forEachMaterial(totalCost, productMaterials, quantity, materials) ==
  IF productMaterials = <<>> THEN totalCost
  ELSE LET line == Head(productMaterials)
           material == find(materials, line.materialId)
       IN forEachMaterial(
            IF material # undefined
            THEN totalCost + material.cost * line.quantity * quantity
            ELSE totalCost,
            Tail(productMaterials), quantity, materials)

\* Mutant of forEachProduct: a loop that stops at the first order line whose
\* product is missing, instead of skipping the line.
RECURSIVE forEachProduct_StopsAtMissing(_, _, _, _)
forEachProduct_StopsAtMissing(totalCost, orderProducts, products, materials) ==
  IF orderProducts = <<>> THEN totalCost
  ELSE LET line == Head(orderProducts)
           product == find(products, line.productId)
       IN IF product # undefined
          THEN forEachProduct_StopsAtMissing(
                 forEachMaterial(totalCost, product.materials, line.quantity, materials),
                 Tail(orderProducts), products, materials)
          ELSE totalCost

\* calculateOrderCost, outer forEach over order.products.
RECURSIVE forEachProduct(_, _, _, _)
forEachProduct(totalCost, orderProducts, products, materials) ==
  IF orderProducts = <<>> THEN totalCost
  ELSE LET line == Head(orderProducts)
           product == find(products, line.productId)
       IN forEachProduct(
            IF product # undefined
            THEN forEachMaterial(totalCost, product.materials, line.quantity, materials)
            ELSE totalCost,
            Tail(orderProducts), products, materials)

calculateOrderCost(orderProducts, products, materials) ==
  forEachProduct(0, orderProducts, products, materials)

(***************************************************************************)
(* Resolver inputs                                                         *)
(***************************************************************************)
\* Prices per unit of the two materials, in half-cents.
MaterialCost == [m \in MaterialIds |-> IF m = "m1" THEN 3 ELSE 5]

MaterialLists ==
  {[i \in DOMAIN ids |-> [id |-> ids[i], name |-> "n1", cost |-> MaterialCost[ids[i]]]] :
     ids \in SeqsByKey(MaterialIds, Cardinality(MaterialIds))}

LineLists(keys, keyField) ==
  UNION {{[i \in DOMAIN ids |->
              IF keyField = "materialId"
              THEN [materialId |-> ids[i], quantity |-> q[i]]
              ELSE [productId |-> ids[i], quantity |-> q[i]]] :
            q \in [DOMAIN ids -> Quantities]} :
         ids \in SeqsByKey(keys, Cardinality(keys))}

ProductLists ==
  UNION {{[i \in DOMAIN ids |-> [id |-> ids[i], name |-> "n1", materials |-> ms[i]]] :
            ms \in [DOMAIN ids -> LineLists(MaterialIds, "materialId")]} :
         ids \in SeqsByKey(ProductIds, Cardinality(ProductIds))}

OrderLineLists == LineLists(ProductIds, "productId")

NoCall == [op |-> "none"]

\* The API server and its database are not part of the resolver's runs.
\* SQL NULL, JavaScript null.
null == [type |-> "null"]

\* A toast: its title.
Toast(title) == [title |-> title]

\* No API call is awaited.
Idle == [stage |-> "idle"]

Tabs == {"t1", "t2"}

\* The dialog and the state of a page that is not mounted.
NoDialog == [isDialogOpen |-> FALSE, formData |-> null]
NoOrdersPage ==
  [orders |-> <<>>, products |-> <<>>, materials |-> <<>>, editingOrder |-> null]
NoProductsPage == [products |-> <<>>, editingProduct |-> null]

\* No browser is open.
BrowserIdle ==
  /\ currentUser = null
  /\ isLoggedIn = FALSE
  /\ currentPage = "dashboard"
  /\ toast = Toast("")
  /\ users = <<>>
  /\ editingUser = null
  /\ inflight = Idle
  /\ waiting = Idle
  /\ dialog = NoDialog
  /\ storageMaterials = null
  /\ tabs = [t \in Tabs |-> [materials |-> <<>>, editingMaterial |-> null]]
  /\ ordersPage = NoOrdersPage
  /\ productsPage = NoProductsPage
  /\ storageProducts = null

ApiIdle ==
  /\ dbUsers = <<>>
  /\ dbMaterials = <<>>
  /\ dbProducts = <<>>
  /\ dbOrders = <<>>
  /\ response = [route |-> "none", status |-> 0]

InitResolver ==
  /\ ServerUp
  /\ rMaterials \in MaterialLists
  /\ rProducts \in ProductLists
  /\ rOrder \in OrderLineLists
  /\ rOut = NoCall
  /\ rProductOut = NoCall
  /\ ApiIdle
  /\ BrowserIdle

\* OrdersPage.handleSubmit's call: calculateOrderCost on the inputs.
CallOrderCost ==
  /\ rOut = NoCall
  /\ rOut' = [op |-> "orderCost",
              value |-> calculateOrderCost(rOrder, rProducts, rMaterials)]
  /\ UNCHANGED <<rMaterials, rProducts, rOrder, rProductOut>>
  /\ UNCHANGED <<varsApi, varsBrowser, varsLocal, varsPages, varsServer>>

\* ProductsPage's call: calculateProductCost on the i-th product.
CallProductCost(i) ==
  /\ rProductOut = NoCall
  /\ rOut.op # "doubled"
  /\ rProductOut' = [op |-> "productCost", product |-> i,
                     value |-> calculateProductCost(rProducts[i].materials, rMaterials)]
  /\ UNCHANGED <<rMaterials, rProducts, rOrder, rOut>>
  /\ UNCHANGED <<varsApi, varsBrowser, varsLocal, varsPages, varsServer>>

\* The i-th order line's quantity is doubled, everything else kept, and
\* calculateOrderCost is evaluated before and after.
CallDoubled(i) ==
  /\ rOut = NoCall
  /\ rProductOut = NoCall
  /\ rOrder' = [rOrder EXCEPT ![i].quantity = 2 * @]
  /\ rOut' = [op |-> "doubled", line |-> i, orderBefore |-> rOrder,
              before |-> calculateOrderCost(rOrder, rProducts, rMaterials),
              value |-> calculateOrderCost(rOrder', rProducts, rMaterials)]
  /\ UNCHANGED <<rMaterials, rProducts, rProductOut>>
  /\ UNCHANGED <<varsApi, varsBrowser, varsLocal, varsPages, varsServer>>

NextResolver ==
  \/ CallOrderCost
  \/ \E i \in DOMAIN rProducts : CallProductCost(i)
  \/ \E i \in DOMAIN rOrder : CallDoubled(i)

SpecResolver == InitResolver /\ [][NextResolver]_vars

(***************************************************************************)
(* Claims about the pricing resolver                                       *)
(***************************************************************************)
Ids(arr) == {arr[i].id : i \in DOMAIN arr}

\* The sum over the order lines of quantity times the product cost of the
\* referenced product, 0 for a product that is not in the list.
RECURSIVE SumOfProductCosts(_, _, _)
SumOfProductCosts(orderProducts, products, materials) ==
  IF orderProducts = <<>> THEN 0
  ELSE LET line == Head(orderProducts)
           product == find(products, line.productId)
       IN (IF product # undefined
           THEN line.quantity * calculateProductCost(product.materials, materials)
           ELSE 0)
          + SumOfProductCosts(Tail(orderProducts), products, materials)

\* C1: calculateOrderCost returns the sum over the order lines of the line's
\* quantity times the product cost of the referenced product: the quantity
\* multiplies the whole resolved product cost.
C1_OrderCostIsQuantityTimesProductCost ==
  rOut.op = "orderCost" =>
    rOut.value = SumOfProductCosts(rOrder, rProducts, rMaterials)

\* An order of two lines, both products found, the first with two material
\* lines that both resolve, has been priced.
C1_Witness ==
  /\ rOut.op = "orderCost"
  /\ Len(rOrder) = 2
  /\ \A i \in DOMAIN rOrder : rOrder[i].productId \in Ids(rProducts)
  /\ rOrder[1].quantity = 2
  /\ LET product == find(rProducts, rOrder[1].productId)
     IN /\ Len(product.materials) = 2
        /\ \A j \in DOMAIN product.materials :
             product.materials[j].materialId \in Ids(rMaterials)
  /\ rOut.value > 0

\* The material lines of a product that reference a material of the list.
Resolvable(productMaterials, materials) ==
  SelectSeq(productMaterials, LAMBDA pm : pm.materialId \in Ids(materials))

StripDangling(products, materials) ==
  [i \in DOMAIN products |->
     [products[i] EXCEPT !.materials = Resolvable(@, materials)]]

\* C2: a material line whose materialId is not in the material list adds
\* exactly 0 to the product cost and to an order cost using the product, no
\* error is raised, and the other lines contribute as usual.
C2_MissingMaterialContributesZero ==
  /\ rProductOut.op = "productCost" =>
       LET pms == rProducts[rProductOut.product].materials
       IN /\ rProductOut.value \in Nat
          /\ rProductOut.value =
               calculateProductCost(Resolvable(pms, rMaterials), rMaterials)
          /\ \A i \in DOMAIN pms :
               pms[i].materialId \notin Ids(rMaterials) =>
                 rProductOut.value = calculateProductCost(RemoveAt(pms, i), rMaterials)
          /\ Resolvable(pms, rMaterials) = <<>> => rProductOut.value = 0
  /\ rOut.op = "orderCost" =>
       /\ rOut.value \in Nat
       /\ rOut.value =
            calculateOrderCost(rOrder, StripDangling(rProducts, rMaterials), rMaterials)

\* A product of two material lines, one dangling and one resolved, has been
\* priced, and so has an order that uses it.
C2_Witness ==
  /\ rProductOut.op = "productCost"
  /\ rOut.op = "orderCost"
  /\ LET product == rProducts[rProductOut.product]
     IN /\ Len(product.materials) = 2
        /\ product.materials[1].materialId \notin Ids(rMaterials)
        /\ product.materials[2].materialId \in Ids(rMaterials)
        /\ \E i \in DOMAIN rOrder : rOrder[i].productId = product.id
  /\ rProductOut.value > 0
  /\ rOut.value > 0

\* C3: an order line whose productId is not in the product list adds exactly
\* 0 to calculateOrderCost, no exception is raised, and the remaining lines
\* are still summed.
C3_MissingProductContributesZero ==
  rOut.op = "orderCost" =>
    LET found == SelectSeq(rOrder, LAMBDA l : l.productId \in Ids(rProducts))
    IN /\ rOut.value \in Nat
       /\ rOut.value = calculateOrderCost(found, rProducts, rMaterials)
       /\ rOut.value = SumOfProductCosts(found, rProducts, rMaterials)
       /\ \A i \in DOMAIN rOrder :
            rOrder[i].productId \notin Ids(rProducts) =>
              rOut.value = calculateOrderCost(RemoveAt(rOrder, i), rProducts, rMaterials)
       /\ found = <<>> => rOut.value = 0

\* An order whose first line references a missing product and whose second
\* line references a product with a positive cost has been priced.
C3_Witness ==
  /\ rOut.op = "orderCost"
  /\ Len(rOrder) = 2
  /\ rOrder[1].productId \notin Ids(rProducts)
  /\ rOrder[2].productId \in Ids(rProducts)
  /\ rOut.value > 0

\* What the forEach iteration of one order line adds to totalCost.
LineContribution(line, products, materials) ==
  calculateOrderCost(<<line>>, products, materials)

\* C4: doubling the quantity of one order line, everything else fixed,
\* doubles that line's contribution to the total and leaves the other
\* lines' contributions unchanged.
C4_LinearInLineQuantity ==
  rOut.op = "doubled" =>
    LET i == rOut.line
        old == rOut.orderBefore
    IN /\ rOrder[i].quantity = 2 * old[i].quantity
       /\ LineContribution(rOrder[i], rProducts, rMaterials)
            = 2 * LineContribution(old[i], rProducts, rMaterials)
       /\ rOut.value = rOut.before + LineContribution(old[i], rProducts, rMaterials)
       /\ \A j \in DOMAIN rOrder \ {i} :
            /\ rOrder[j] = old[j]
            /\ rOut.value - LineContribution(rOrder[i], rProducts, rMaterials)
                 = rOut.before - LineContribution(old[i], rProducts, rMaterials)

\* The first line of a two-line order, both lines with a positive
\* contribution, has been doubled.
C4_Witness ==
  /\ rOut.op = "doubled"
  /\ rOut.line = 1
  /\ Len(rOrder) = 2
  /\ \A j \in DOMAIN rOrder : LineContribution(rOrder[j], rProducts, rMaterials) > 0
  /\ rOut.value > rOut.before

\* C5: both resolvers return 0 on an empty sequence, whatever the product
\* and material lists hold.
C5_EmptySequencesCostZero ==
  /\ (rProductOut.op = "productCost"
        /\ rProducts[rProductOut.product].materials = <<>>)
       => rProductOut.value = 0
  /\ (rOut.op = "orderCost" /\ rOrder = <<>>) => rOut.value = 0

\* A product without material lines and an order without lines have been
\* priced over a non-empty product list and a non-empty material list.
C5_Witness ==
  /\ rProductOut.op = "productCost"
  /\ rProducts[rProductOut.product].materials = <<>>
  /\ rProductOut.value = 0
  /\ rOut.op = "orderCost"
  /\ rOrder = <<>>
  /\ rOut.value = 0
  /\ Len(rMaterials) = 2
  /\ \E i \in DOMAIN rProducts : rProducts[i].materials # <<>>

(***************************************************************************)
(* The database: the tables of ensureSchema, as MySQL keeps them           *)
(***************************************************************************)
\* A Date's toISOString(), t being the time it was taken at.
ISO(t) == [iso |-> t]

\* x || y on the values an optional text field takes.
OrElse(x, y) == IF x = undefined \/ x = null THEN y ELSE x

\* A number written to a DECIMAL(p,2) column: the column keeps whole cents,
\* rounded half away from zero.  perCent is how many units of the JavaScript
\* field make a cent.
DECIMAL2(v, perCent) == (2 * v + perCent) \div (2 * perCent)

\* Number(row.column) of a DECIMAL(p,2) column, back in the field's unit.
Number(cents, perCent) == cents * perCent

\* JSON.stringify of an array of plain objects, and parseJsonField of the
\* JSON column it was written to.
JSONstringify(value) == [json |-> value]
parseJsonField(value) == IF value = null THEN <<>> ELSE value.json

\* The keys (PRIMARY KEY and UNIQUE columns, in index order) on which a row
\* of the table other than row number `self` collides with `row`.
DuplicateEntry(table, row, uniqueColumns, self) ==
  SelectSeq(uniqueColumns,
            LAMBDA c : \E i \in DOMAIN table \ {self} : table[i][c] = row[c])

\* The error of a rejected statement: "Duplicate entry '...' for key '...'".
ER_DUP_ENTRY(key) == [code |-> "ER_DUP_ENTRY", key |-> key]

\* INSERT INTO table VALUES row.
INSERT(table, row, uniqueColumns) ==
  LET duplicate == DuplicateEntry(table, row, uniqueColumns, 0)
  IN IF duplicate # <<>>
     THEN [error |-> ER_DUP_ENTRY(Head(duplicate)), rows |-> table]
     ELSE [error |-> null, rows |-> Append(table, row)]

\* UPDATE table SET columns WHERE id = :id.  affectedRows counts the rows
\* the WHERE clause matches.
UPDATE(table, id, columns, uniqueColumns) ==
  LET matched == {i \in DOMAIN table : table[i].id = id}
      row == [id |-> id] @@ columns
      duplicate == IF matched = {} THEN <<>>
                   ELSE DuplicateEntry(table, row, Tail(uniqueColumns),
                                       CHOOSE i \in matched : TRUE)
  IN IF duplicate # <<>>
     THEN [error |-> ER_DUP_ENTRY(Head(duplicate)), affectedRows |-> 0, rows |-> table]
     ELSE [error |-> null, affectedRows |-> Cardinality(matched),
           rows |-> [i \in DOMAIN table |-> IF i \in matched THEN row ELSE table[i]]]

\* DELETE FROM table WHERE id = :id.
DELETE(table, id) ==
  [affectedRows |-> Cardinality({i \in DOMAIN table : table[i].id = id}),
   rows |-> SelectSeq(table, LAMBDA r : r.id # id)]

\* getProducts() of the localStorage library.
getProducts == IF storageProducts = null THEN <<>> ELSE storageProducts.json

TotalRows ==
  Len(dbUsers) + Len(dbMaterials) + Len(dbProducts) + Len(dbOrders) + Len(getProducts)

(***************************************************************************)
(* The API server: row mappers and route handlers                          *)
(***************************************************************************)
mapMaterial(row) ==
  [id |-> row.id, name |-> row.name, cost |-> Number(row.cost, 2)]

mapProduct(row) ==
  [id |-> row.id, name |-> row.name, materials |-> parseJsonField(row.materials)]

mapOrder(row) ==
  [id |-> row.id, orderNumber |-> row.order_number,
   products |-> parseJsonField(row.products), status |-> row.status,
   totalCost |-> Number(row.total_cost, 4),
   completedAt |-> OrElse(row.completed_at, undefined)]

\* GET /api/users, /api/materials, /api/products, /api/orders: list().
GetUsers == dbUsers
GetMaterials == [i \in DOMAIN dbMaterials |-> mapMaterial(dbMaterials[i])]
GetProducts == [i \in DOMAIN dbProducts |-> mapProduct(dbProducts[i])]
GetOrders == [i \in DOMAIN dbOrders |-> mapOrder(dbOrders[i])]

\* The error middleware's answer to a rejected query.
ServerError(route, error) ==
  [route |-> route, status |-> 500, body |-> [error |-> error]]

NotFound(route, id, what) ==
  [route |-> route, id |-> id, status |-> 404, body |-> [error |-> what]]

userRow(user) ==
  [id |-> user.id, email |-> user.email, role |-> user.role, password |-> user.password]

\* app.post('/api/users') on a table whose email column is not UNIQUE.
PostUsers_EmailNotUnique(user) ==
  /\ TotalRows < MaxRows
  /\ LET result == INSERT(dbUsers, userRow(user), <<"id">>)
     IN /\ dbUsers' = result.rows
        /\ response' = IF result.error # null
                       THEN ServerError("POST /api/users", result.error)
                       ELSE [route |-> "POST /api/users", status |-> 201, body |-> user]
  /\ UNCHANGED <<dbMaterials, dbProducts, dbOrders>>

\* app.post('/api/users')
PostUsers(user) ==
  /\ TotalRows < MaxRows
  /\ LET result == INSERT(dbUsers, userRow(user), <<"id", "email">>)
     IN /\ dbUsers' = result.rows
        /\ response' = IF result.error # null
                       THEN ServerError("POST /api/users", result.error)
                       ELSE [route |-> "POST /api/users", status |-> 201, body |-> user]
  /\ UNCHANGED <<dbMaterials, dbProducts, dbOrders>>

\* app.put('/api/users/:id') on a table whose email column is not UNIQUE.
PutUsers_EmailNotUnique(id, body) ==
  LET user == [body EXCEPT !.id = id]
      result == UPDATE(dbUsers, id,
                       [email |-> user.email, role |-> user.role,
                        password |-> user.password], <<"id">>)
  IN /\ dbUsers' = result.rows
     /\ response' = IF result.affectedRows = 0
                    THEN NotFound("PUT /api/users/:id", id, "User not found")
                    ELSE [route |-> "PUT /api/users/:id", id |-> id,
                          status |-> 200, body |-> user]
     /\ UNCHANGED <<dbMaterials, dbProducts, dbOrders>>

\* app.put('/api/users/:id')
PutUsers(id, body) ==
  LET user == [body EXCEPT !.id = id]
      result == UPDATE(dbUsers, id,
                       [email |-> user.email, role |-> user.role,
                        password |-> user.password], <<"id", "email">>)
  IN /\ dbUsers' = result.rows
     /\ response' = IF result.error # null
                    THEN ServerError("PUT /api/users/:id", result.error)
                    ELSE IF result.affectedRows = 0
                    THEN NotFound("PUT /api/users/:id", id, "User not found")
                    ELSE [route |-> "PUT /api/users/:id", id |-> id,
                          status |-> 200, body |-> user]
     /\ UNCHANGED <<dbMaterials, dbProducts, dbOrders>>

\* app.delete('/api/users/:id')
DeleteUsers(id) ==
  LET result == DELETE(dbUsers, id)
  IN /\ dbUsers' = result.rows
     /\ response' = IF result.affectedRows = 0
                    THEN NotFound("DELETE /api/users/:id", id, "User not found")
                    ELSE [route |-> "DELETE /api/users/:id", id |-> id,
                          status |-> 204, body |-> null]
     /\ UNCHANGED <<dbMaterials, dbProducts, dbOrders>>

materialColumns(material) ==
  [name |-> material.name, cost |-> DECIMAL2(material.cost, 2)]

\* app.post('/api/materials')
PostMaterials(material) ==
  /\ TotalRows < MaxRows
  /\ LET result == INSERT(dbMaterials,
                          [id |-> material.id] @@ materialColumns(material), <<"id">>)
     IN /\ dbMaterials' = result.rows
        /\ response' = IF result.error # null
                       THEN ServerError("POST /api/materials", result.error)
                       ELSE [route |-> "POST /api/materials", status |-> 201,
                             body |-> material]
  /\ UNCHANGED <<dbUsers, dbProducts, dbOrders>>

\* app.put('/api/materials/:id') that also reprices the orders.
PutMaterials_RepricesOrders(id, body) ==
  LET material == [body EXCEPT !.id = id]
      result == UPDATE(dbMaterials, id, materialColumns(material), <<"id">>)
  IN /\ dbMaterials' = result.rows
     /\ dbOrders' = [i \in DOMAIN dbOrders |-> [dbOrders[i] EXCEPT !.total_cost = 0]]
     /\ response' = IF result.affectedRows = 0
                    THEN NotFound("PUT /api/materials/:id", id, "Material not found")
                    ELSE [route |-> "PUT /api/materials/:id", id |-> id,
                          status |-> 200, body |-> material]
     /\ UNCHANGED <<dbUsers, dbProducts>>

\* app.put('/api/materials/:id')
PutMaterials(id, body) ==
  LET material == [body EXCEPT !.id = id]
      result == UPDATE(dbMaterials, id, materialColumns(material), <<"id">>)
  IN /\ dbMaterials' = result.rows
     /\ response' = IF result.affectedRows = 0
                    THEN NotFound("PUT /api/materials/:id", id, "Material not found")
                    ELSE [route |-> "PUT /api/materials/:id", id |-> id,
                          status |-> 200, body |-> material]
     /\ UNCHANGED <<dbUsers, dbProducts, dbOrders>>

\* app.delete('/api/materials/:id')
DeleteMaterials(id) ==
  LET result == DELETE(dbMaterials, id)
  IN /\ dbMaterials' = result.rows
     /\ response' = IF result.affectedRows = 0
                    THEN NotFound("DELETE /api/materials/:id", id, "Material not found")
                    ELSE [route |-> "DELETE /api/materials/:id", id |-> id,
                          status |-> 204, body |-> null]
     /\ UNCHANGED <<dbUsers, dbProducts, dbOrders>>

productColumns(product) ==
  [name |-> product.name, materials |-> JSONstringify(product.materials)]

\* app.post('/api/products')
PostProducts(product) ==
  /\ TotalRows < MaxRows
  /\ LET result == INSERT(dbProducts,
                          [id |-> product.id] @@ productColumns(product), <<"id">>)
     IN /\ dbProducts' = result.rows
        /\ response' = IF result.error # null
                       THEN ServerError("POST /api/products", result.error)
                       ELSE [route |-> "POST /api/products", status |-> 201,
                             body |-> product]
  /\ UNCHANGED <<dbUsers, dbMaterials, dbOrders>>

\* app.put('/api/products/:id')
PutProducts(id, body) ==
  LET product == [body EXCEPT !.id = id]
      result == UPDATE(dbProducts, id, productColumns(product), <<"id">>)
  IN /\ dbProducts' = result.rows
     /\ response' = IF result.affectedRows = 0
                    THEN NotFound("PUT /api/products/:id", id, "Product not found")
                    ELSE [route |-> "PUT /api/products/:id", id |-> id,
                          status |-> 200, body |-> product]
     /\ UNCHANGED <<dbUsers, dbMaterials, dbOrders>>

\* app.delete('/api/products/:id')
DeleteProducts(id) ==
  LET result == DELETE(dbProducts, id)
  IN /\ dbProducts' = result.rows
     /\ response' = IF result.affectedRows = 0
                    THEN NotFound("DELETE /api/products/:id", id, "Product not found")
                    ELSE [route |-> "DELETE /api/products/:id", id |-> id,
                          status |-> 204, body |-> null]
     /\ UNCHANGED <<dbUsers, dbMaterials, dbOrders>>

orderColumns(order) ==
  [order_number |-> order.orderNumber, products |-> JSONstringify(order.products),
   status |-> order.status, total_cost |-> DECIMAL2(order.totalCost, 4),
   completed_at |-> OrElse(order.completedAt, null)]

\* app.post('/api/orders')
PostOrders(order) ==
  /\ TotalRows < MaxRows
  /\ LET result == INSERT(dbOrders, [id |-> order.id] @@ orderColumns(order), <<"id">>)
     IN /\ dbOrders' = result.rows
        /\ response' = IF result.error # null
                       THEN ServerError("POST /api/orders", result.error)
                       ELSE [route |-> "POST /api/orders", status |-> 201, body |-> order]
  /\ UNCHANGED <<dbUsers, dbMaterials, dbProducts>>

\* PUT /api/orders/:id refusing an order whose status is completed.
PutOrders_CompletedIsFinal(id, body) ==
  LET order == [body EXCEPT !.id = id]
      final == \E i \in DOMAIN dbOrders :
                 dbOrders[i].id = id /\ dbOrders[i].status = "completed"
      result == IF final THEN [rows |-> dbOrders, affectedRows |-> 0]
                ELSE UPDATE(dbOrders, id, orderColumns(order), <<"id">>)
  IN /\ dbOrders' = result.rows
     /\ response' = IF result.affectedRows = 0
                    THEN NotFound("PUT /api/orders/:id", id, "Order not found")
                    ELSE [route |-> "PUT /api/orders/:id", id |-> id,
                          status |-> 200, body |-> order]
     /\ UNCHANGED <<dbUsers, dbMaterials, dbProducts>>

\* app.put('/api/orders/:id')
PutOrders(id, body) ==
  LET order == [body EXCEPT !.id = id]
      result == UPDATE(dbOrders, id, orderColumns(order), <<"id">>)
  IN /\ dbOrders' = result.rows
     /\ response' = IF result.affectedRows = 0
                    THEN NotFound("PUT /api/orders/:id", id, "Order not found")
                    ELSE [route |-> "PUT /api/orders/:id", id |-> id,
                          status |-> 200, body |-> order]
     /\ UNCHANGED <<dbUsers, dbMaterials, dbProducts>>

\* app.delete('/api/orders/:id')
DeleteOrders(id) ==
  LET result == DELETE(dbOrders, id)
  IN /\ dbOrders' = result.rows
     /\ response' = IF result.affectedRows = 0
                    THEN NotFound("DELETE /api/orders/:id", id, "Order not found")
                    ELSE [route |-> "DELETE /api/orders/:id", id |-> id,
                          status |-> 204, body |-> null]
     /\ UNCHANGED <<dbUsers, dbMaterials, dbProducts>>

(***************************************************************************)
(* Clients of the API: the entities a request carries                      *)
(***************************************************************************)
Users ==
  [id : UserIds, email : Emails, role : {"admin", "employee"}, password : {"admin123"}]

Materials == [id : MaterialIds, name : {"n1"}, cost : 0..MaxCost]

Products ==
  [id : ProductIds, name : {"n1"},
   materials : {<<>>, <<[materialId |-> "m1", quantity |-> 1]>>}]

Orders ==
  {order \in [id : OrderIds, orderNumber : {"on1"},
              products : {<<[productId |-> "p1", quantity |-> 1]>>},
              status : {"pending", "completed"}, totalCost : 0..MaxTotal,
              completedAt : {undefined, ISO(1)}] :
     order.status = "completed" <=> order.completedAt # undefined}

\* The resolver is not part of the API server's runs.
ResolverIdle ==
  /\ rMaterials = <<>>
  /\ rProducts = <<>>
  /\ rOrder = <<>>
  /\ rOut = NoCall
  /\ rProductOut = NoCall

\* ensureSchema's last step on the users table it finds.
ensureSchema(rows) ==
  IF Len(rows) = 0
  THEN <<[id |-> "00000000-0000-0000-0000-000000000001",
          email |-> "admin@company.com", role |-> "admin", password |-> "admin123"]>>
  ELSE rows

\* start() on an empty database: the schema is ensured, the server listens.
InitApi ==
  /\ ServerUp
  /\ dbUsers = ensureSchema(<<>>)
  /\ dbMaterials = <<>>
  /\ dbProducts = <<>>
  /\ dbOrders = <<>>
  /\ response = [route |-> "none", status |-> 0]
  /\ ResolverIdle
  /\ BrowserIdle

Request ==
  \/ \E user \in Users : PostUsers(user)
  \/ \E id \in UserIds, user \in Users : PutUsers(id, user)
  \/ \E id \in UserIds : DeleteUsers(id)
  \/ \E material \in Materials : PostMaterials(material)
  \/ \E id \in MaterialIds, material \in Materials : PutMaterials(id, material)
  \/ \E id \in MaterialIds : DeleteMaterials(id)
  \/ \E product \in Products : PostProducts(product)
  \/ \E id \in ProductIds, product \in Products : PutProducts(id, product)
  \/ \E id \in ProductIds : DeleteProducts(id)
  \/ \E order \in Orders : PostOrders(order)
  \/ \E id \in OrderIds, order \in Orders : PutOrders(id, order)
  \/ \E id \in OrderIds : DeleteOrders(id)

\* start(): the server process is started on the database it finds.  When
\* ensureSchema's queries are rejected the catch block exits the process
\* before app.listen is reached.
start ==
  IF mysql = "up"
  THEN /\ dbUsers' = ensureSchema(dbUsers)
       /\ response' = [route |-> "start", status |-> 0]
       /\ server' = "listening"
       /\ UNCHANGED <<dbMaterials, dbProducts, dbOrders, mysql>>
  ELSE /\ server' = "exited"
       /\ UNCHANGED <<varsApi, mysql>>

NextApi == (Request \/ start) /\ UNCHANGED <<varsResolver, varsBrowser, varsLocal, varsPages, varsServer>>

SpecApi == InitApi /\ [][NextApi]_vars

(***************************************************************************)
(* The server process: start(), asyncHandler and the error middleware,     *)
(* over a database that can become unreachable                             *)
(***************************************************************************)
\* The routes whose handler awaits a pool.query.
Routes ==
  {"GET /api/users", "POST /api/users", "PUT /api/users/:id", "DELETE /api/users/:id",
   "GET /api/materials", "POST /api/materials", "PUT /api/materials/:id",
   "DELETE /api/materials/:id",
   "GET /api/products", "POST /api/products", "PUT /api/products/:id",
   "DELETE /api/products/:id",
   "GET /api/orders", "POST /api/orders", "PUT /api/orders/:id", "DELETE /api/orders/:id"}

\* The error a query of the pool is rejected with while the database is
\* unreachable.
ECONNREFUSED == [code |-> "ECONNREFUSED"]

\* asyncHandler without its catch(next): the handler's rejection is unhandled
\* and ends the process, the request gets no answer.
asyncHandler_Uncaught(route, error) ==
  /\ server' = "exited"
  /\ UNCHANGED <<varsApi, mysql>>

\* asyncHandler on a handler whose query is rejected: catch(next) hands the
\* error to the error middleware, which answers 500.
asyncHandler(route, error) ==
  /\ response' = ServerError(route, error)
  /\ UNCHANGED <<varsDb, varsServer>>

\* A request whose handler's query reaches the database.
Served ==
  /\ server = "listening"
  /\ mysql = "up"
  /\ Request
  /\ UNCHANGED varsServer

\* A request whose handler's query is rejected.
Rejected ==
  /\ server = "listening"
  /\ mysql = "down"
  /\ \E route \in Routes : asyncHandler(route, ECONNREFUSED)

\* The database becomes unreachable, or reachable again.
Connection ==
  /\ mysql' = IF mysql = "up" THEN "down" ELSE "up"
  /\ UNCHANGED <<varsApi, server>>

\* The module is loaded, start() is called and awaits ensureSchema.
InitServer ==
  /\ server = "starting"
  /\ mysql \in {"up", "down"}
  /\ ApiIdle
  /\ ResolverIdle
  /\ BrowserIdle

NextServer ==
  \/ (server = "starting" /\ start
        /\ UNCHANGED <<varsResolver, varsBrowser, varsLocal, varsPages>>)
  \/ (Served /\ UNCHANGED <<varsResolver, varsBrowser, varsLocal, varsPages>>)
  \/ (Rejected /\ UNCHANGED <<varsResolver, varsBrowser, varsLocal, varsPages>>)
  \/ (Connection /\ UNCHANGED <<varsResolver, varsBrowser, varsLocal, varsPages>>)

SpecServer == InitServer /\ [][NextServer]_vars

(***************************************************************************)
(* The browser: Index, Layout and UsersPage over the API client            *)
(***************************************************************************)
\* app.get('/api/users')
ListUsers ==
  /\ response' = [route |-> "GET /api/users", status |-> 200, body |-> GetUsers]
  /\ UNCHANGED varsDb

\* What is typed into the fields of the UsersPage dialog: a new employee,
\* the same with the email of the seeded admin, with an email that lacks
\* the '@', with a short password, and an edit to employee with the seeded
\* admin's email that leaves the password field empty.
UserForms ==
  {[email |-> "b@x", role |-> "employee", password |-> "admin123"],
   [email |-> "admin@company.com", role |-> "employee", password |-> "admin123"],
   [email |-> "bx", role |-> "employee", password |-> "admin123"],
   [email |-> "b@x", role |-> "employee", password |-> "abc"],
   [email |-> "admin@company.com", role |-> "employee", password |-> ""]}

\* UsersPage's formData as useState and the handlers reset it.
blankUserForm == [email |-> "", role |-> "employee", password |-> ""]

\* What is typed into the fields of LoginPage.
LoginEmails == Emails \cup {"Admin@company.com"}
LoginPasswords == {"admin123", "Admin123"}

\* String.prototype.includes('@') and .length on the strings a form holds.
includesAt(s) == s \in {"admin@company.com", "Admin@company.com", "b@x"}
length(s) == CASE s = "" -> 0 [] s = "abc" -> 3 [] OTHER -> 8

\* crypto.randomUUID(): an id that nothing in the system holds.
randomUUID ==
  UserIds \ (Ids(dbUsers) \cup Ids(users)
               \cup (IF editingUser = null THEN {} ELSE {editingUser.id})
               \cup (IF currentUser = null THEN {} ELSE {currentUser.id}))

\* The lines addProduct and addMaterial append to a form; the selects of
\* the line offer the products and materials the page holds.
newProductLine == [productId |-> "", quantity |-> 0]
newMaterialLine == [materialId |-> "", quantity |-> 0]

\* What the OrdersPage dialog is made to hold: an order number, a status,
\* and the line of addProduct or none.
OrderForms ==
  [orderNumber : {"on1"}, products : {<<>>, <<newProductLine>>},
   status : {"pending", "completed"}]

\* OrdersPage's formData as useState and the handlers reset it.
blankOrderForm == [orderNumber |-> "", products |-> <<>>, status |-> "pending"]

\* What the ProductsPage dialog is made to hold: a name, and the line of
\* addMaterial or none.
ProductForms == [name : {"n1"}, materials : {<<>>, <<newMaterialLine>>}]

\* ProductsPage's formData as useState and the handlers reset it.
blankProductForm == [name |-> "", materials |-> <<>>]

\* request(): the call is sent; its continuation keeps the list it was
\* started with and waits for the answer.
Call(op, arg) ==
  [stage |-> "sent", op |-> op, arg |-> arg, users |-> users,
   detached |-> FALSE, answer |-> null]

\* The same for a call of OrdersPage.
OrdersCall(op, arg, orders) ==
  [stage |-> "sent", op |-> op, arg |-> arg, orders |-> orders,
   detached |-> FALSE, answer |-> null]

\* response.ok
ok(answer) == answer.status \in 200..299

\* Layout's navigation entries.
navigation ==
  {"dashboard", "orders", "products", "materials"}
    \cup (IF currentUser # null /\ currentUser.role = "admin" THEN {"users"} ELSE {})

\* UsersPage is rendered, past its access check.
AdminView ==
  /\ isLoggedIn
  /\ currentPage = "users"
  /\ currentUser # null
  /\ currentUser.role = "admin"

\* The trash button of a user card is rendered.
DeleteButtonShown(user) == currentUser = null \/ user.id # currentUser.id

\* A page unmounts: its state is gone, a call it awaits runs on detached.
PageUnmount == IF inflight = Idle THEN Idle ELSE [inflight EXCEPT !.detached = TRUE]

\* UsersPage mounts: fresh state, and the effect starts loadUsers.
UsersPageMount ==
  /\ inflight = Idle
  /\ users' = <<>>
  /\ editingUser' = null
  /\ dialog' = [isDialogOpen |-> FALSE, formData |-> blankUserForm]
  /\ inflight' = [Call("getUsers", null) EXCEPT !.users = <<>>]

\* OrdersPage mounts: fresh state, and the effect starts loadData.
OrdersPageMount ==
  /\ inflight = Idle
  /\ ordersPage' = NoOrdersPage
  /\ dialog' = [isDialogOpen |-> FALSE, formData |-> blankOrderForm]
  /\ inflight' = OrdersCall("loadData", null, <<>>)

\* ProductsPage mounts: useState(getProducts()).
ProductsPageMount ==
  /\ productsPage' = [products |-> getProducts, editingProduct |-> null]
  /\ dialog' = [isDialogOpen |-> FALSE, formData |-> blankProductForm]
  /\ inflight' = PageUnmount

\* Index.renderPage: the page of Index's switch replaces the one shown
\* ('login' for LoginPage).
renderPage(page) ==
  /\ IF page = "users" THEN UsersPageMount ELSE users' = <<>> /\ editingUser' = null
  /\ IF page = "orders" THEN OrdersPageMount ELSE ordersPage' = NoOrdersPage
  /\ IF page = "products" THEN ProductsPageMount ELSE productsPage' = NoProductsPage
  /\ page \notin {"users", "orders", "products"} =>
       dialog' = NoDialog /\ inflight' = PageUnmount

\* Layout: a navigation button, Index.setCurrentPage.
Navigate(page) ==
  /\ isLoggedIn
  /\ page \in navigation
  /\ page # currentPage
  /\ currentPage' = page
  /\ renderPage(page)
  /\ UNCHANGED <<currentUser, isLoggedIn, toast, storageProducts>>
  /\ UNCHANGED <<varsServer, waiting, varsResolver, varsApi, varsLocal>>

\* Layout.handleLogout; Index then renders LoginPage.
handleLogout ==
  /\ isLoggedIn
  /\ currentUser' = null
  /\ isLoggedIn' = FALSE
  /\ renderPage("login")
  /\ UNCHANGED <<currentPage, toast, storageProducts>>
  /\ UNCHANGED <<varsServer, waiting, varsResolver, varsApi, varsLocal>>

\* initializeStorage() of the localStorage library: the default admin is
\* saved under the id when getUsers() is empty.
initializeStorage(rows, id) ==
  IF Len(rows) = 0
  THEN <<[id |-> id, email |-> "admin@company.com", role |-> "admin",
          password |-> "admin123"]>>
  ELSE rows

\* LoginPage.handleLogin; on a match Index renders the page currentPage names.
handleLogin(email, password) ==
  /\ ~isLoggedIn
  /\ \E id \in (IF Len(dbUsers) = 0 THEN randomUUID ELSE {"unused"}) :
       LET stored == initializeStorage(dbUsers, id)
           found == SelectSeq(stored, LAMBDA u : u.email = email /\ u.password = password)
           user == IF found = <<>> THEN undefined ELSE Head(found)
       IN /\ dbUsers' = stored
          /\ IF user # undefined
             THEN /\ currentUser' = user
                  /\ toast' = Toast("Login successful")
                  /\ isLoggedIn' = TRUE
                  /\ renderPage(currentPage)
             ELSE /\ toast' = Toast("Login failed")
                  /\ UNCHANGED <<currentUser, isLoggedIn, users, editingUser, inflight,
                                 dialog, ordersPage, productsPage>>
  /\ UNCHANGED <<dbMaterials, dbProducts, dbOrders, response, currentPage>>
  /\ UNCHANGED <<varsServer, waiting, varsResolver, varsLocal, storageProducts>>

\* The tab is reloaded while no call is pending: Index mounts with
\* isLoggedIn from getCurrentUser() and currentPage 'dashboard'.
Reload ==
  /\ inflight = Idle
  /\ isLoggedIn' = (currentUser # null)
  /\ currentPage' = "dashboard"
  /\ toast' = Toast("")
  /\ renderPage(IF currentUser # null THEN "dashboard" ELSE "login")
  /\ UNCHANGED <<currentUser, storageProducts>>
  /\ UNCHANGED <<varsServer, waiting, varsResolver, varsApi, varsLocal>>

\* UsersPage: the dialog's onOpenChange(true), from the Add User trigger.
UsersDialogOpen ==
  /\ AdminView
  /\ ~dialog.isDialogOpen
  /\ dialog' = [dialog EXCEPT !.isDialogOpen = TRUE]
  /\ UNCHANGED <<currentUser, isLoggedIn, currentPage, toast, users, editingUser, inflight>>
  /\ UNCHANGED <<varsResolver, varsApi, varsLocal, varsPages, varsServer, waiting>>

\* UsersPage: onChange of the dialog's inputs, setFormData.
UsersSetFormData(formData) ==
  /\ AdminView
  /\ dialog.isDialogOpen
  /\ formData # dialog.formData
  /\ dialog' = [dialog EXCEPT !.formData = formData]
  /\ UNCHANGED <<currentUser, isLoggedIn, currentPage, toast, users, editingUser, inflight>>
  /\ UNCHANGED <<varsResolver, varsApi, varsLocal, varsPages, varsServer, waiting>>

\* UsersPage.handleEdit
UsersHandleEdit(user) ==
  /\ AdminView
  /\ editingUser' = user
  /\ dialog' = [isDialogOpen |-> TRUE,
                formData |-> [email |-> user.email, role |-> user.role, password |-> ""]]
  /\ UNCHANGED <<currentUser, isLoggedIn, currentPage, toast, users, inflight>>
  /\ UNCHANGED <<varsResolver, varsApi, varsLocal, varsPages, varsServer, waiting>>

\* UsersPage: the dialog's onOpenChange(false).
UsersDialogClose ==
  /\ AdminView
  /\ dialog.isDialogOpen
  /\ editingUser' = null
  /\ dialog' = [isDialogOpen |-> FALSE, formData |-> blankUserForm]
  /\ UNCHANGED <<currentUser, isLoggedIn, currentPage, toast, users, inflight>>
  /\ UNCHANGED <<varsResolver, varsApi, varsLocal, varsPages, varsServer, waiting>>

\* UsersPage.handleSubmit without its two checks.
UsersHandleSubmit_Unvalidated ==
  LET formData == dialog.formData
  IN /\ AdminView
     /\ dialog.isDialogOpen
     /\ inflight = Idle
     /\ IF editingUser # null
        THEN LET userData ==
                   [editingUser EXCEPT
                      !.email = formData.email, !.role = formData.role,
                      !.password = IF formData.password # "" THEN formData.password ELSE @]
             IN inflight' = Call("updateUser", userData) /\ UNCHANGED toast
        ELSE \E id \in randomUUID :
               LET userData == [id |-> id, email |-> formData.email,
                                role |-> formData.role, password |-> formData.password]
               IN inflight' = Call("createUser", userData) /\ UNCHANGED toast
     /\ UNCHANGED <<currentUser, isLoggedIn, currentPage, users, editingUser, dialog>>
     /\ UNCHANGED <<varsResolver, varsApi, varsLocal, varsPages, varsServer, waiting>>

\* UsersPage.handleSubmit, up to the await.  It is taken on whatever the
\* form holds: the handler does not rely on the inputs' required and type
\* attributes.
UsersHandleSubmit ==
  LET formData == dialog.formData
  IN /\ AdminView
     /\ dialog.isDialogOpen
     /\ inflight = Idle
     /\ IF ~includesAt(formData.email)
        THEN toast' = Toast("Validation Error") /\ UNCHANGED inflight
        ELSE IF length(formData.password) < 6 /\ editingUser = null
        THEN toast' = Toast("Validation Error") /\ UNCHANGED inflight
        ELSE IF editingUser # null
        THEN LET userData ==
                   [editingUser EXCEPT
                      !.email = formData.email, !.role = formData.role,
                      !.password = IF formData.password # "" THEN formData.password ELSE @]
             IN inflight' = Call("updateUser", userData) /\ UNCHANGED toast
        ELSE \E id \in randomUUID :
               LET userData == [id |-> id, email |-> formData.email,
                                role |-> formData.role, password |-> formData.password]
               IN inflight' = Call("createUser", userData) /\ UNCHANGED toast
     /\ UNCHANGED <<currentUser, isLoggedIn, currentPage, users, editingUser, dialog>>
     /\ UNCHANGED <<varsResolver, varsApi, varsLocal, varsPages, varsServer, waiting>>

\* UsersPage.handleDelete without its first check.
UsersHandleDelete_Unguarded(id) ==
  /\ AdminView
  /\ inflight = Idle
  /\ inflight' = Call("deleteUser", id)
  /\ UNCHANGED <<currentUser, isLoggedIn, currentPage, toast, users, editingUser, dialog>>
  /\ UNCHANGED <<varsResolver, varsApi, varsLocal, varsPages, varsServer, waiting>>

\* UsersPage.handleDelete, up to the await.  It is taken for every listed
\* user: the handler does not rely on DeleteButtonShown.
UsersHandleDelete(id) ==
  /\ AdminView
  /\ inflight = Idle
  /\ IF id = currentUser.id
     THEN toast' = Toast("Cannot delete") /\ UNCHANGED inflight
     ELSE inflight' = Call("deleteUser", id) /\ UNCHANGED toast
  /\ UNCHANGED <<currentUser, isLoggedIn, currentPage, users, editingUser, dialog>>
  /\ UNCHANGED <<varsResolver, varsApi, varsLocal, varsPages, varsServer, waiting>>

\* The server takes the request in flight and answers it.
ServerHandle ==
  /\ inflight.stage = "sent"
  /\ \/ inflight.op = "getUsers" /\ ListUsers
     \/ inflight.op = "createUser" /\ PostUsers(inflight.arg)
     \/ inflight.op = "updateUser" /\ PutUsers(inflight.arg.id, inflight.arg)
     \/ inflight.op = "deleteUser" /\ DeleteUsers(inflight.arg)
  /\ inflight' = [inflight EXCEPT !.stage = "answered", !.answer = response']
  /\ UNCHANGED <<currentUser, isLoggedIn, currentPage, toast, users, editingUser, dialog>>
  /\ UNCHANGED <<varsResolver, varsLocal, varsPages, varsServer, waiting>>

\* What the continuation of a save leaves of the dialog and its editing
\* target: reset and closed after the try block, as they are in the catch.
afterSave(call, failed) ==
  IF ~failed /\ ~call.detached /\ call.op \in {"createUser", "updateUser"}
  THEN [editingUser |-> null,
        dialog |-> [isDialogOpen |-> FALSE, formData |-> blankUserForm]]
  ELSE [editingUser |-> editingUser, dialog |-> dialog]

\* The awaiting handler resumes: loadUsers, handleSubmit and handleDelete
\* after their await, with the catch block on a rejected request.
Resume ==
  /\ inflight.stage = "answered"
  /\ inflight.op \in {"getUsers", "createUser", "updateUser", "deleteUser"}
  /\ LET call == inflight
         saved == call.answer.body
         failed == ~ok(call.answer)
         setUsers(list) == IF call.detached THEN users ELSE list
     IN /\ users' =
             IF failed THEN users
             ELSE CASE call.op = "getUsers" -> setUsers(saved)
                    [] call.op = "createUser" -> setUsers(Append(call.users, saved))
                    [] call.op = "updateUser" ->
                         setUsers([i \in DOMAIN call.users |->
                                     IF call.users[i].id = saved.id
                                     THEN saved ELSE call.users[i]])
                    [] call.op = "deleteUser" ->
                         setUsers(SelectSeq(call.users, LAMBDA u : u.id # call.arg))
        /\ toast' =
             CASE call.op = "getUsers" ->
                    IF failed THEN Toast("Unable to load users") ELSE toast
               [] call.op = "createUser" ->
                    Toast(IF failed THEN "Unable to save user" ELSE "User created")
               [] call.op = "updateUser" ->
                    Toast(IF failed THEN "Unable to save user" ELSE "User updated")
               [] call.op = "deleteUser" ->
                    Toast(IF failed THEN "Unable to delete user" ELSE "User deleted")
        /\ editingUser' = afterSave(call, failed).editingUser
        /\ dialog' = afterSave(call, failed).dialog
  /\ inflight' = Idle
  /\ UNCHANGED <<currentUser, isLoggedIn, currentPage>>
  /\ UNCHANGED <<varsResolver, varsApi, varsLocal, varsPages, varsServer, waiting>>

\* A browser tab opened for the first time on the started server: nothing
\* in localStorage, Index renders LoginPage.
InitUsers ==
  /\ ServerUp
  /\ dbUsers = ensureSchema(<<>>)
  /\ dbMaterials = <<>>
  /\ dbProducts = <<>>
  /\ dbOrders = <<>>
  /\ response = [route |-> "none", status |-> 0]
  /\ ResolverIdle
  /\ BrowserIdle

NextUsersPage ==
  \/ UsersDialogOpen
  \/ \E formData \in UserForms : UsersSetFormData(formData)
  \/ \E user \in Range(users) : UsersHandleEdit(user)
  \/ UsersDialogClose
  \/ UsersHandleSubmit
  \/ \E id \in Ids(users) : UsersHandleDelete(id)
  \/ ServerHandle
  \/ Resume

NextUsers ==
  \/ \E email \in LoginEmails, password \in LoginPasswords : handleLogin(email, password)
  \/ Reload
  \/ \E page \in {"dashboard", "users"} : Navigate(page)
  \/ handleLogout
  \/ NextUsersPage

SpecUsers == InitUsers /\ [][NextUsers]_vars

(***************************************************************************)
(* OrdersPage over the API client and ProductsPage over localStorage       *)
(***************************************************************************)
\* app.get('/api/orders'), '/api/products' and '/api/materials' answering
\* the three requests of loadData's Promise.all.  The other client of
\* SpecApp changes no product and no material, so the three answers are
\* those of one instant.
ListAll ==
  /\ response' = [route |-> "GET /api/orders", status |-> 200,
                  body |-> [orders |-> GetOrders, products |-> GetProducts,
                            materials |-> GetMaterials]]
  /\ UNCHANGED varsDb

\* OrdersPage is rendered.
OrdersView == isLoggedIn /\ currentPage = "orders"

\* crypto.randomUUID(): an id that nothing in the system holds.  The page's
\* runs draw o1, so the page holds one order of its own making at a time.
randomOrderUUID ==
  {"o1"} \ (Ids(dbOrders) \cup Ids(ordersPage.orders)
                \cup (IF ordersPage.editingOrder = null THEN {}
                      ELSE {ordersPage.editingOrder.id}))

\* OrdersPage: the dialog's onOpenChange(true), from the Create Order trigger.
OrdersDialogOpen ==
  /\ OrdersView
  /\ ~dialog.isDialogOpen
  /\ dialog' = [dialog EXCEPT !.isDialogOpen = TRUE]
  /\ UNCHANGED <<currentUser, isLoggedIn, currentPage, toast, users, editingUser, inflight>>
  /\ UNCHANGED <<varsResolver, varsApi, varsLocal, varsPages, varsServer, waiting>>

\* OrdersPage: onChange of the dialog's inputs, addProduct and
\* removeProduct, setFormData.
OrdersSetFormData(formData) ==
  /\ OrdersView
  /\ dialog.isDialogOpen
  /\ formData # dialog.formData
  /\ dialog' = [dialog EXCEPT !.formData = formData]
  /\ UNCHANGED <<currentUser, isLoggedIn, currentPage, toast, users, editingUser, inflight>>
  /\ UNCHANGED <<varsResolver, varsApi, varsLocal, varsPages, varsServer, waiting>>

\* OrdersPage.handleEdit
OrdersHandleEdit(order) ==
  /\ OrdersView
  /\ ordersPage' = [ordersPage EXCEPT !.editingOrder = order]
  /\ dialog' = [isDialogOpen |-> TRUE,
                formData |-> [orderNumber |-> order.orderNumber,
                              products |-> order.products, status |-> order.status]]
  /\ UNCHANGED <<currentUser, isLoggedIn, currentPage, toast, users, editingUser, inflight>>
  /\ UNCHANGED <<productsPage, storageProducts>>
  /\ UNCHANGED <<varsServer, waiting, varsResolver, varsApi, varsLocal>>

\* OrdersPage: the dialog's onOpenChange(false).
OrdersDialogClose ==
  /\ OrdersView
  /\ dialog.isDialogOpen
  /\ ordersPage' = [ordersPage EXCEPT !.editingOrder = null]
  /\ dialog' = [isDialogOpen |-> FALSE, formData |-> blankOrderForm]
  /\ UNCHANGED <<currentUser, isLoggedIn, currentPage, toast, users, editingUser, inflight>>
  /\ UNCHANGED <<productsPage, storageProducts>>
  /\ UNCHANGED <<varsServer, waiting, varsResolver, varsApi, varsLocal>>

\* OrdersPage.handleSubmit's orderData with the edit keeping the
\* completedAt of the order it edits.
orderData_KeepsCompletedAt(editingOrder, formData, id, totalCost, now) ==
  IF editingOrder # null
  THEN [editingOrder EXCEPT
          !.orderNumber = formData.orderNumber, !.products = formData.products,
          !.status = formData.status, !.totalCost = totalCost]
  ELSE [id |-> id, orderNumber |-> formData.orderNumber,
        products |-> formData.products, status |-> formData.status,
        totalCost |-> totalCost,
        completedAt |-> IF formData.status = "completed" THEN ISO(now) ELSE undefined]

\* OrdersPage.handleSubmit's orderData; now is what new Date() reads.
orderData(editingOrder, formData, id, totalCost, now) ==
  IF editingOrder # null
  THEN [editingOrder EXCEPT
          !.orderNumber = formData.orderNumber, !.products = formData.products,
          !.status = formData.status, !.totalCost = totalCost,
          !.completedAt = IF formData.status = "completed" THEN ISO(now) ELSE @]
  ELSE [id |-> id, orderNumber |-> formData.orderNumber,
        products |-> formData.products, status |-> formData.status,
        totalCost |-> totalCost,
        completedAt |-> IF formData.status = "completed" THEN ISO(now) ELSE undefined]

\* OrdersPage.handleSubmit, up to the await.
OrdersHandleSubmit ==
  LET formData == dialog.formData
      editingOrder == ordersPage.editingOrder
      totalCost == calculateOrderCost(formData.products, ordersPage.products,
                                      ordersPage.materials)
  IN /\ OrdersView
     /\ dialog.isDialogOpen
     /\ inflight = Idle
     /\ IF Len(formData.products) = 0
        THEN toast' = Toast("Error") /\ UNCHANGED inflight
        ELSE \E id \in (IF editingOrder # null THEN {editingOrder.id} ELSE randomOrderUUID) :
               /\ inflight' = OrdersCall(IF editingOrder # null THEN "updateOrder"
                                         ELSE "createOrder",
                                         orderData(editingOrder, formData, id, totalCost, 1),
                                         ordersPage.orders)
               /\ UNCHANGED toast
     /\ UNCHANGED <<currentUser, isLoggedIn, currentPage, users, editingUser, dialog>>
     /\ UNCHANGED <<varsResolver, varsApi, varsLocal, varsPages, varsServer, waiting>>

\* OrdersPage.handleDelete, up to the await.
OrdersHandleDelete(id) ==
  /\ OrdersView
  /\ inflight = Idle
  /\ inflight' = OrdersCall("deleteOrder", id, ordersPage.orders)
  /\ UNCHANGED <<currentUser, isLoggedIn, currentPage, toast, users, editingUser, dialog>>
  /\ UNCHANGED <<varsResolver, varsApi, varsLocal, varsPages, varsServer, waiting>>

\* The server takes the request of OrdersPage in flight and answers it.
OrdersServerHandle ==
  /\ inflight.stage = "sent"
  /\ \/ inflight.op = "loadData" /\ ListAll
     \/ inflight.op = "createOrder" /\ PostOrders(inflight.arg)
     \/ inflight.op = "updateOrder" /\ PutOrders(inflight.arg.id, inflight.arg)
     \/ inflight.op = "deleteOrder" /\ DeleteOrders(inflight.arg)
  /\ inflight' = [inflight EXCEPT !.stage = "answered", !.answer = response']
  /\ UNCHANGED <<currentUser, isLoggedIn, currentPage, toast, users, editingUser, dialog>>
  /\ UNCHANGED <<varsResolver, varsLocal, varsPages, varsServer, waiting>>

\* What the continuation of an order save leaves of the dialog and its
\* editing target, with the dialog closed whatever the answer.
afterOrderSave_ClosesOnFailure(call, failed) ==
  IF ~call.detached /\ call.op \in {"createOrder", "updateOrder"}
  THEN [editingOrder |-> null,
        dialog |-> [isDialogOpen |-> FALSE, formData |-> blankOrderForm]]
  ELSE [editingOrder |-> ordersPage.editingOrder, dialog |-> dialog]

\* What the continuation of an order save leaves of the dialog and its
\* editing target: reset and closed after the try block, as they are in the
\* catch.
afterOrderSave(call, failed) ==
  IF ~failed /\ ~call.detached /\ call.op \in {"createOrder", "updateOrder"}
  THEN [editingOrder |-> null,
        dialog |-> [isDialogOpen |-> FALSE, formData |-> blankOrderForm]]
  ELSE [editingOrder |-> ordersPage.editingOrder, dialog |-> dialog]

\* The awaiting handler of OrdersPage resumes: loadData, handleSubmit and
\* handleDelete after their await, with the catch block on a rejected
\* request.
OrdersResume ==
  /\ inflight.stage = "answered"
  /\ inflight.op \in {"loadData", "createOrder", "updateOrder", "deleteOrder"}
  /\ LET call == inflight
         saved == call.answer.body
         failed == ~ok(call.answer)
         loaded == ~failed /\ ~call.detached /\ call.op = "loadData"
         setOrders(list) == IF call.detached THEN ordersPage.orders ELSE list
     IN /\ ordersPage' =
             [orders |->
                IF failed THEN ordersPage.orders
                ELSE CASE call.op = "loadData" -> setOrders(saved.orders)
                       [] call.op = "createOrder" -> setOrders(Append(call.orders, saved))
                       [] call.op = "updateOrder" ->
                            setOrders([i \in DOMAIN call.orders |->
                                         IF call.orders[i].id = saved.id
                                         THEN saved ELSE call.orders[i]])
                       [] call.op = "deleteOrder" ->
                            setOrders(SelectSeq(call.orders, LAMBDA o : o.id # call.arg)),
              products |-> IF loaded THEN saved.products ELSE ordersPage.products,
              materials |-> IF loaded THEN saved.materials ELSE ordersPage.materials,
              editingOrder |-> afterOrderSave(call, failed).editingOrder]
        /\ toast' =
             CASE call.op = "loadData" ->
                    IF failed THEN Toast("Unable to load data") ELSE toast
               [] call.op = "createOrder" ->
                    Toast(IF failed THEN "Unable to save order" ELSE "Order created")
               [] call.op = "updateOrder" ->
                    Toast(IF failed THEN "Unable to save order" ELSE "Order updated")
               [] call.op = "deleteOrder" ->
                    Toast(IF failed THEN "Unable to delete order" ELSE "Order deleted")
        /\ dialog' = afterOrderSave(call, failed).dialog
  /\ inflight' = Idle
  /\ UNCHANGED <<currentUser, isLoggedIn, currentPage, users, editingUser>>
  /\ UNCHANGED <<productsPage, storageProducts>>
  /\ UNCHANGED <<varsServer, waiting, varsResolver, varsApi, varsLocal>>

\* Another client of the API server deletes an order.
OtherClientDeletesOrder(id) ==
  /\ DeleteOrders(id)
  /\ UNCHANGED <<varsResolver, varsBrowser, varsLocal, varsPages, varsServer>>

\* ProductsPage is rendered.
ProductsView == isLoggedIn /\ currentPage = "products"

\* crypto.randomUUID(): an id that nothing in the system holds.  The page's
\* runs draw p1.
randomProductUUID ==
  {"p1"} \ (Ids(getProducts) \cup Ids(productsPage.products)
                  \cup (IF productsPage.editingProduct = null THEN {}
                        ELSE {productsPage.editingProduct.id}))

\* ProductsPage: the dialog's onOpenChange(true), from the Add Product trigger.
ProductsDialogOpen ==
  /\ ProductsView
  /\ ~dialog.isDialogOpen
  /\ dialog' = [dialog EXCEPT !.isDialogOpen = TRUE]
  /\ UNCHANGED <<currentUser, isLoggedIn, currentPage, toast, users, editingUser, inflight>>
  /\ UNCHANGED <<varsResolver, varsApi, varsLocal, varsPages, varsServer, waiting>>

\* ProductsPage: onChange of the name input, addMaterial and
\* removeMaterial, setFormData.
ProductsSetFormData(formData) ==
  /\ ProductsView
  /\ dialog.isDialogOpen
  /\ formData # dialog.formData
  /\ dialog' = [dialog EXCEPT !.formData = formData]
  /\ UNCHANGED <<currentUser, isLoggedIn, currentPage, toast, users, editingUser, inflight>>
  /\ UNCHANGED <<varsResolver, varsApi, varsLocal, varsPages, varsServer, waiting>>

\* ProductsPage.handleEdit
ProductsHandleEdit(product) ==
  /\ ProductsView
  /\ productsPage' = [productsPage EXCEPT !.editingProduct = product]
  /\ dialog' = [isDialogOpen |-> TRUE,
                formData |-> [name |-> product.name, materials |-> product.materials]]
  /\ UNCHANGED <<currentUser, isLoggedIn, currentPage, toast, users, editingUser, inflight>>
  /\ UNCHANGED <<ordersPage, storageProducts>>
  /\ UNCHANGED <<varsServer, waiting, varsResolver, varsApi, varsLocal>>

\* ProductsPage: the dialog's onOpenChange(false).
ProductsDialogClose ==
  /\ ProductsView
  /\ dialog.isDialogOpen
  /\ productsPage' = [productsPage EXCEPT !.editingProduct = null]
  /\ dialog' = [isDialogOpen |-> FALSE, formData |-> blankProductForm]
  /\ UNCHANGED <<currentUser, isLoggedIn, currentPage, toast, users, editingUser, inflight>>
  /\ UNCHANGED <<ordersPage, storageProducts>>
  /\ UNCHANGED <<varsServer, waiting, varsResolver, varsApi, varsLocal>>

\* ProductsPage.handleSubmit
ProductsHandleSubmit ==
  LET formData == dialog.formData
      products == productsPage.products
      editingProduct == productsPage.editingProduct
  IN /\ ProductsView
     /\ dialog.isDialogOpen
     /\ (editingProduct = null /\ Len(formData.materials) # 0) => TotalRows < MaxRows
     /\ IF Len(formData.materials) = 0
        THEN /\ toast' = Toast("Error")
             /\ UNCHANGED <<dialog, productsPage, storageProducts>>
        ELSE \E id \in (IF editingProduct # null THEN {editingProduct.id}
                        ELSE randomProductUUID) :
               LET productData ==
                     IF editingProduct # null
                     THEN [editingProduct EXCEPT !.name = formData.name,
                                                 !.materials = formData.materials]
                     ELSE [id |-> id, name |-> formData.name,
                           materials |-> formData.materials]
                   updatedProducts ==
                     IF editingProduct # null
                     THEN [i \in DOMAIN products |->
                             IF products[i].id = editingProduct.id
                             THEN productData ELSE products[i]]
                     ELSE Append(products, productData)
               IN /\ productsPage' = [products |-> updatedProducts, editingProduct |-> null]
                  /\ storageProducts' = JSONstringify(updatedProducts)
                  /\ toast' = Toast(IF editingProduct # null THEN "Product updated"
                                    ELSE "Product created")
                  /\ dialog' = [isDialogOpen |-> FALSE, formData |-> blankProductForm]
     /\ UNCHANGED <<currentUser, isLoggedIn, currentPage, users, editingUser, inflight>>
     /\ UNCHANGED ordersPage
     /\ UNCHANGED <<varsServer, waiting, varsResolver, varsApi, varsLocal>>

\* ProductsPage.handleDelete
ProductsHandleDelete(id) ==
  LET updatedProducts == SelectSeq(productsPage.products, LAMBDA p : p.id # id)
  IN /\ ProductsView
     /\ productsPage' = [productsPage EXCEPT !.products = updatedProducts]
     /\ storageProducts' = JSONstringify(updatedProducts)
     /\ toast' = Toast("Product deleted")
     /\ UNCHANGED <<currentUser, isLoggedIn, currentPage, users, editingUser, inflight, dialog>>
     /\ UNCHANGED ordersPage
     /\ UNCHANGED <<varsServer, waiting, varsResolver, varsApi, varsLocal>>

NextOrders ==
  \/ OrdersDialogOpen
  \/ \E formData \in OrderForms : OrdersSetFormData(formData)
  \/ \E order \in Range(ordersPage.orders) : OrdersHandleEdit(order)
  \/ OrdersDialogClose
  \/ OrdersHandleSubmit
  \/ \E id \in Ids(ordersPage.orders) : OrdersHandleDelete(id)
  \/ OrdersServerHandle
  \/ OrdersResume
  \/ \E id \in Ids(dbOrders) : OtherClientDeletesOrder(id)

NextProducts ==
  \/ ProductsDialogOpen
  \/ \E formData \in ProductForms : ProductsSetFormData(formData)
  \/ \E product \in Range(productsPage.products) : ProductsHandleEdit(product)
  \/ ProductsDialogClose
  \/ ProductsHandleSubmit
  \/ \E id \in Ids(productsPage.products) : ProductsHandleDelete(id)

\* The tab after the seeded administrator has logged in.
InitApp ==
  /\ ServerUp
  /\ dbUsers = ensureSchema(<<>>)
  /\ dbMaterials = <<>>
  /\ dbProducts = <<>>
  /\ dbOrders = <<>>
  /\ response = [route |-> "none", status |-> 0]
  /\ ResolverIdle
  /\ currentUser = dbUsers[1]
  /\ isLoggedIn = TRUE
  /\ currentPage = "dashboard"
  /\ toast = Toast("Login successful")
  /\ users = <<>>
  /\ editingUser = null
  /\ inflight = Idle
  /\ waiting = Idle
  /\ dialog = NoDialog
  /\ storageMaterials = null
  /\ tabs = [t \in Tabs |-> [materials |-> <<>>, editingMaterial |-> null]]
  /\ ordersPage = NoOrdersPage
  /\ productsPage = NoProductsPage
  /\ storageProducts = null

\* Of UsersPage the runs of SpecApp create and delete users; editing them
\* is in SpecUsers.
NextApp ==
  \/ \E page \in {"dashboard", "users", "orders", "products"} : Navigate(page)
  \/ UsersDialogOpen
  \/ \E formData \in UserForms : UsersSetFormData(formData)
  \/ UsersDialogClose
  \/ UsersHandleSubmit
  \/ \E id \in Ids(users) : UsersHandleDelete(id)
  \/ ServerHandle
  \/ Resume
  \/ NextOrders
  \/ NextProducts

SpecApp == InitApp /\ [][NextApp]_vars

(***************************************************************************)
(* OrdersPage on a database that holds a material, a product made of it    *)
(* and an order of that product; another client changes the material       *)
(***************************************************************************)
\* What an edit leaves in the OrdersPage dialog: the line of the stored
\* product and any item of the status Select.
OrderEdits ==
  [orderNumber : {"on1"}, products : {<<[productId |-> "p1", quantity |-> 1]>>},
   status : Statuses]

\* Another client of the API server changes the cost of a material.
OtherClientPutsMaterial(material) ==
  /\ PutMaterials(material.id, material)
  /\ UNCHANGED <<varsResolver, varsBrowser, varsLocal, varsPages, varsServer>>

\* The admin is logged in; the database holds material m1 at 0.02, product
\* p1 made of 0.5 of m1, and the pending order o1 of one p1.
InitOrders ==
  /\ ServerUp
  /\ dbUsers = ensureSchema(<<>>)
  /\ dbMaterials = <<[id |-> "m1", name |-> "n1", cost |-> 2]>>
  /\ dbProducts = <<[id |-> "p1", name |-> "n1",
                     materials |-> JSONstringify(<<[materialId |-> "m1", quantity |-> 1]>>)]>>
  /\ dbOrders = <<[id |-> "o1", order_number |-> "on1",
                   products |-> JSONstringify(<<[productId |-> "p1", quantity |-> 1]>>),
                   status |-> "pending", total_cost |-> 1, completed_at |-> null]>>
  /\ response = [route |-> "none", status |-> 0]
  /\ ResolverIdle
  /\ currentUser = dbUsers[1]
  /\ isLoggedIn = TRUE
  /\ currentPage = "dashboard"
  /\ toast = Toast("Login successful")
  /\ users = <<>>
  /\ editingUser = null
  /\ inflight = Idle
  /\ waiting = Idle
  /\ dialog = NoDialog
  /\ storageMaterials = null
  /\ tabs = [t \in Tabs |-> [materials |-> <<>>, editingMaterial |-> null]]
  /\ ordersPage = NoOrdersPage
  /\ productsPage = NoProductsPage
  /\ storageProducts = null

\* The stored order is edited and deleted; orders are created in SpecApp.
NextOrdersPage ==
  \/ \E page \in {"dashboard", "orders"} : Navigate(page)
  \/ \E formData \in OrderEdits : OrdersSetFormData(formData)
  \/ \E order \in Range(ordersPage.orders) : OrdersHandleEdit(order)
  \/ OrdersDialogClose
  \/ OrdersHandleSubmit
  \/ \E id \in Ids(ordersPage.orders) : OrdersHandleDelete(id)
  \/ OrdersServerHandle
  \/ OrdersResume
  \/ \E material \in Materials : OtherClientPutsMaterial(material)

SpecOrders == InitOrders /\ [][NextOrdersPage]_vars

(***************************************************************************)
(* OrdersPage with two handlers awaiting at a time: the buttons stay       *)
(* enabled while a request is under way                                    *)
(***************************************************************************)
\* The form of an edit that completes the order.
OrderCompletions ==
  [orderNumber : {"on1"}, products : {<<[productId |-> "p1", quantity |-> 1]>>},
   status : {"completed"}]

\* The stored pending order of one p1.
pendingOrderRow(id) ==
  [id |-> id, order_number |-> "on1",
   products |-> JSONstringify(<<[productId |-> "p1", quantity |-> 1]>>),
   status |-> "pending", total_cost |-> 1, completed_at |-> null]

\* The handler that awaits lets the page go on: the user acts on the page
\* as rendered, or the other awaiting handler takes the next step.
Yield ==
  /\ OrdersView
  /\ inflight # Idle \/ waiting # Idle
  /\ inflight' = waiting
  /\ waiting' = inflight
  /\ UNCHANGED <<currentUser, isLoggedIn, currentPage, toast, users, editingUser, dialog>>
  /\ UNCHANGED <<varsResolver, varsApi, varsLocal, varsPages, varsServer>>

\* OrdersPage is mounted and loadData has set its lists; the database holds
\* material m1, product p1 and the pending orders o1 and o2.
InitOverlap ==
  /\ ServerUp
  /\ dbUsers = ensureSchema(<<>>)
  /\ dbMaterials = <<[id |-> "m1", name |-> "n1", cost |-> 2]>>
  /\ dbProducts = <<[id |-> "p1", name |-> "n1",
                     materials |-> JSONstringify(<<[materialId |-> "m1", quantity |-> 1]>>)]>>
  /\ dbOrders = <<pendingOrderRow("o1"), pendingOrderRow("o2")>>
  /\ response = [route |-> "GET /api/orders", status |-> 200,
                 body |-> [orders |-> GetOrders, products |-> GetProducts,
                           materials |-> GetMaterials]]
  /\ ResolverIdle
  /\ currentUser = dbUsers[1]
  /\ isLoggedIn = TRUE
  /\ currentPage = "orders"
  /\ toast = Toast("Login successful")
  /\ users = <<>>
  /\ editingUser = null
  /\ inflight = Idle
  /\ waiting = Idle
  /\ dialog = [isDialogOpen |-> FALSE, formData |-> blankOrderForm]
  /\ storageMaterials = null
  /\ tabs = [t \in Tabs |-> [materials |-> <<>>, editingMaterial |-> null]]
  /\ ordersPage = [orders |-> GetOrders, products |-> GetProducts,
                   materials |-> GetMaterials, editingOrder |-> null]
  /\ productsPage = NoProductsPage
  /\ storageProducts = null

NextOverlap ==
  \/ \E formData \in OrderCompletions : OrdersSetFormData(formData)
  \/ \E order \in Range(ordersPage.orders) : OrdersHandleEdit(order)
  \/ OrdersDialogClose
  \/ OrdersHandleSubmit
  \/ \E id \in Ids(ordersPage.orders) : OrdersHandleDelete(id)
  \/ OrdersServerHandle
  \/ OrdersResume
  \/ Yield

SpecOverlap == InitOverlap /\ [][NextOverlap]_vars

(***************************************************************************)
(* MaterialsPage over localStorage, open in two browser tabs               *)
(***************************************************************************)
\* getMaterials() of the localStorage library.
getMaterials == IF storageMaterials = null THEN <<>> ELSE storageMaterials.json

\* The text the MaterialsPage dialog holds when it is submitted, and
\* parseFloat of its cost field, in half-cents.
MaterialForms == [name : {"n1"}, cost : {"0.01", "0.02"}]
parseFloat(s) == CASE s = "0.01" -> 2 [] s = "0.02" -> 4

\* crypto.randomUUID(): an id that no list holds.
randomMaterialUUID ==
  MaterialIds \ (Ids(getMaterials)
                   \cup UNION {Ids(tabs[t].materials) : t \in Tabs}
                   \cup {tabs[t].editingMaterial.id :
                           t \in {u \in Tabs : tabs[u].editingMaterial # null}})

TabToast(t, title) == [title |-> title, tab |-> t]

\* The page is loaded in the tab: useState(getMaterials()).
MaterialsPageMount(t) ==
  /\ tabs' = [tabs EXCEPT ![t] = [materials |-> getMaterials, editingMaterial |-> null]]
  /\ UNCHANGED <<storageMaterials, toast>>
  /\ UNCHANGED <<currentUser, isLoggedIn, currentPage, users, editingUser, inflight, dialog>>
  /\ UNCHANGED <<varsResolver, varsApi, varsPages, varsServer, waiting>>

\* MaterialsPage.handleEdit
MaterialsHandleEdit(t, material) ==
  /\ tabs' = [tabs EXCEPT ![t].editingMaterial = material]
  /\ UNCHANGED <<storageMaterials, toast>>
  /\ UNCHANGED <<currentUser, isLoggedIn, currentPage, users, editingUser, inflight, dialog>>
  /\ UNCHANGED <<varsResolver, varsApi, varsPages, varsServer, waiting>>

\* MaterialsPage: the dialog's onOpenChange(false).
MaterialsDialogClose(t) ==
  /\ tabs[t].editingMaterial # null
  /\ tabs' = [tabs EXCEPT ![t].editingMaterial = null]
  /\ UNCHANGED <<storageMaterials, toast>>
  /\ UNCHANGED <<currentUser, isLoggedIn, currentPage, users, editingUser, inflight, dialog>>
  /\ UNCHANGED <<varsResolver, varsApi, varsPages, varsServer, waiting>>

\* MaterialsPage.handleSubmit
MaterialsHandleSubmit(t, formData) ==
  LET materials == tabs[t].materials
      editingMaterial == tabs[t].editingMaterial
  IN /\ \E id \in (IF editingMaterial # null THEN {editingMaterial.id}
                   ELSE randomMaterialUUID) :
          LET materialData ==
                IF editingMaterial # null
                THEN [editingMaterial EXCEPT !.name = formData.name,
                                             !.cost = parseFloat(formData.cost)]
                ELSE [id |-> id, name |-> formData.name,
                      cost |-> parseFloat(formData.cost)]
              updatedMaterials ==
                IF editingMaterial # null
                THEN [i \in DOMAIN materials |->
                        IF materials[i].id = editingMaterial.id
                        THEN materialData ELSE materials[i]]
                ELSE Append(materials, materialData)
          IN /\ tabs' = [tabs EXCEPT ![t] = [materials |-> updatedMaterials,
                                             editingMaterial |-> null]]
             /\ storageMaterials' = JSONstringify(updatedMaterials)
     /\ toast' = TabToast(t, IF editingMaterial # null THEN "Material updated"
                             ELSE "Material created")
     /\ UNCHANGED <<currentUser, isLoggedIn, currentPage, users, editingUser, inflight, dialog>>
     /\ UNCHANGED <<varsResolver, varsApi, varsPages, varsServer, waiting>>

\* MaterialsPage.handleDelete without its saveMaterials: the list is changed
\* in memory and left for a later save.
MaterialsHandleDelete_Unsaved(t, id) ==
  LET updatedMaterials == SelectSeq(tabs[t].materials, LAMBDA m : m.id # id)
  IN /\ tabs' = [tabs EXCEPT ![t].materials = updatedMaterials]
     /\ toast' = TabToast(t, "Material deleted")
     /\ UNCHANGED storageMaterials
     /\ UNCHANGED <<currentUser, isLoggedIn, currentPage, users, editingUser, inflight, dialog>>
     /\ UNCHANGED <<varsResolver, varsApi, varsPages, varsServer, waiting>>

\* MaterialsPage.handleDelete
MaterialsHandleDelete(t, id) ==
  LET updatedMaterials == SelectSeq(tabs[t].materials, LAMBDA m : m.id # id)
  IN /\ tabs' = [tabs EXCEPT ![t].materials = updatedMaterials]
     /\ storageMaterials' = JSONstringify(updatedMaterials)
     /\ toast' = TabToast(t, "Material deleted")
     /\ UNCHANGED <<currentUser, isLoggedIn, currentPage, users, editingUser, inflight, dialog>>
     /\ UNCHANGED <<varsResolver, varsApi, varsPages, varsServer, waiting>>

\* Both tabs show MaterialsPage on an empty localStorage.
InitLocal ==
  /\ ServerUp
  /\ ResolverIdle
  /\ ApiIdle
  /\ BrowserIdle

NextLocal ==
  \E t \in Tabs :
    \/ MaterialsPageMount(t)
    \/ \E material \in Range(tabs[t].materials) : MaterialsHandleEdit(t, material)
    \/ MaterialsDialogClose(t)
    \/ \E formData \in MaterialForms : MaterialsHandleSubmit(t, formData)
    \/ \E id \in Ids(tabs[t].materials) : MaterialsHandleDelete(t, id)

SpecLocal == InitLocal /\ [][NextLocal]_vars

(***************************************************************************)
(* The pages over localStorage, one instance of each: MaterialsPage in     *)
(* tab t1, ProductsPage in the tab of Index                                *)
(***************************************************************************)
NextStore ==
  \/ MaterialsPageMount("t1")
  \/ \E material \in Range(tabs["t1"].materials) : MaterialsHandleEdit("t1", material)
  \/ MaterialsDialogClose("t1")
  \/ \E formData \in MaterialForms : MaterialsHandleSubmit("t1", formData)
  \/ \E id \in Ids(tabs["t1"].materials) : MaterialsHandleDelete("t1", id)
  \/ \E page \in {"dashboard", "products"} : Navigate(page)
  \/ NextProducts

SpecStore == InitApp /\ [][NextStore]_vars

(***************************************************************************)
(* Claims about the REST routes                                            *)
(***************************************************************************)
\* The entities of a list() answer that carry the id.
Listed(list, id) == SelectSeq(list, LAMBDA x : x.id = id)

\* C6: after a successful create and a successful update(id, e'), list()
\* holds exactly one entity with that id and it equals e' carrying the id,
\* for each of the four entity types.
C6_UpdateThenListReturnsUpdate ==
  [][\A id \in UserIds \cup MaterialIds \cup ProductIds \cup OrderIds :
       /\ \A e \in Users :
            (PutUsers(id, e) /\ response'.status = 200)
              => Listed(GetUsers', id) = <<[e EXCEPT !.id = id]>>
       /\ \A e \in Materials :
            (PutMaterials(id, e) /\ response'.status = 200)
              => Listed(GetMaterials', id) = <<[e EXCEPT !.id = id]>>
       /\ \A e \in Products :
            (PutProducts(id, e) /\ response'.status = 200)
              => Listed(GetProducts', id) = <<[e EXCEPT !.id = id]>>
       /\ \A e \in Orders :
            (PutOrders(id, e) /\ response'.status = 200)
              => Listed(GetOrders', id) = <<[e EXCEPT !.id = id]>>]_vars

\* C10: create(e) answers DuplicateKey and leaves the store as it was when
\* an entity with e.id exists; otherwise it succeeds, list() gains exactly
\* e, and the answer is e.
CreateContract(e, before, after) ==
  IF e.id \in Ids(before)
  THEN /\ response'.status = 500
       /\ response'.body.error.code = "ER_DUP_ENTRY"
       /\ after = before
  ELSE /\ response'.status = 201
       /\ response'.body = e
       /\ after = Append(before, e)

C10_CreateInsertsOrDuplicateKey ==
  [][/\ \A e \in Users : PostUsers(e) => CreateContract(e, GetUsers, GetUsers')
     /\ \A e \in Materials :
          PostMaterials(e) => CreateContract(e, GetMaterials, GetMaterials')
     /\ \A e \in Products :
          PostProducts(e) => CreateContract(e, GetProducts, GetProducts')
     /\ \A e \in Orders : PostOrders(e) => CreateContract(e, GetOrders, GetOrders')]_vars

\* C7: delete(id) for an id that is not in the store fails with NotFound and
\* list() is the same before and after: the REST routes answer 404 and
\* MaterialsPage.handleDelete reports a failure, neither changes the list.
C7_DeleteOfMissingIdIsNotFound ==
  [][/\ \A id \in UserIds :
          (DeleteUsers(id) /\ id \notin Ids(GetUsers))
            => response'.status = 404 /\ GetUsers' = GetUsers
     /\ \A id \in OrderIds :
          (DeleteOrders(id) /\ id \notin Ids(GetOrders))
            => response'.status = 404 /\ GetOrders' = GetOrders
     /\ \A t \in Tabs : \A id \in MaterialIds :
          (MaterialsHandleDelete(t, id) /\ id \notin Ids(getMaterials))
            => toast'.title # "Material deleted" /\ getMaterials' = getMaterials]_vars

\* The DELETE routes alone: a missing id is answered 404 Not Found and no
\* table changes.
DeleteRoutesAnswerNotFound ==
  [][/\ \A id \in UserIds :
          (DeleteUsers(id) /\ id \notin Ids(GetUsers))
            => response'.status = 404 /\ GetUsers' = GetUsers
     /\ \A id \in MaterialIds :
          (DeleteMaterials(id) /\ id \notin Ids(GetMaterials))
            => response'.status = 404 /\ GetMaterials' = GetMaterials
     /\ \A id \in ProductIds :
          (DeleteProducts(id) /\ id \notin Ids(GetProducts))
            => response'.status = 404 /\ GetProducts' = GetProducts
     /\ \A id \in OrderIds :
          (DeleteOrders(id) /\ id \notin Ids(GetOrders))
            => response'.status = 404 /\ GetOrders' = GetOrders]_vars

(***************************************************************************)
(* Claims about UsersPage                                                  *)
(***************************************************************************)
\* C8: handleDelete on the id of the session's user shows 'Cannot delete',
\* sends no request and changes neither the users table nor the list, so
\* the user is still in the store; the role the user's row holds plays no
\* part.
C8_SelfDeletionIsRefused ==
  [][\A id \in UserIds :
       (UsersHandleDelete(id) /\ id = currentUser.id)
         => /\ toast'.title = "Cannot delete"
            /\ inflight' = Idle
            /\ dbUsers' = dbUsers
            /\ users' = users
            /\ (id \in Ids(dbUsers) => id \in Ids(dbUsers'))]_vars

\* The session's user, whose row has been given the role employee, has
\* called handleDelete on the own id and is still in the table.
C8_Witness ==
  /\ toast.title = "Cannot delete"
  /\ currentUser # null
  /\ \E i \in DOMAIN dbUsers :
       /\ dbUsers[i].id = currentUser.id
       /\ dbUsers[i].role = "employee"
  /\ Len(dbUsers) = 2

\* C9: creating a user whose email a row of the users table already holds is
\* answered with a duplicate-key error and the table is unchanged; the page
\* shows 'Unable to save user' and keeps its list.
C9_DuplicateEmailIsRejected ==
  [][/\ (ServerHandle /\ inflight.op = "createUser"
           /\ \E i \in DOMAIN dbUsers : dbUsers[i].email = inflight.arg.email)
          => /\ response'.status = 500
             /\ response'.body.error.code = "ER_DUP_ENTRY"
             /\ dbUsers' = dbUsers
     /\ (Resume /\ inflight.op = "createUser" /\ ~ok(inflight.answer))
          => /\ toast'.title = "Unable to save user"
             /\ users' = users
             /\ dbUsers' = dbUsers]_vars

\* A create with a new id and the email of an existing row has been
\* rejected on the email key and reported by the page.
C9_Witness ==
  /\ toast.title = "Unable to save user"
  /\ response.route = "POST /api/users"
  /\ response.status = 500
  /\ response.body.error = ER_DUP_ENTRY("email")
  /\ inflight = Idle
  /\ Len(users) = 1

(***************************************************************************)
(* Claims about update, uniqueness and the seeded account                  *)
(***************************************************************************)
\* The list with the entity of the given id replaced by e carrying that id.
Replaced(list, id, e) ==
  [i \in DOMAIN list |-> IF list[i].id = id THEN [e EXCEPT !.id = id] ELSE list[i]]

\* Another row of the users table holds the email.
EmailTaken(email, id) ==
  \E i \in DOMAIN dbUsers : dbUsers[i].id # id /\ dbUsers[i].email = email

UpdateContract(id, e, before, after) ==
  IF id \in Ids(before)
  THEN /\ response'.status = 200
       /\ response'.body = [e EXCEPT !.id = id]
       /\ after = Replaced(before, id, e)
  ELSE /\ response'.status = 404
       /\ after = before

\* C11: update(id, e) on an existing id replaces the stored entity with e,
\* stored and returned under the path id whatever id the payload carries;
\* on an id that is not in the store it fails with NotFound and changes
\* nothing.  For users the update is one that takes no other user's email.
C11_UpdateReplacesOrNotFound ==
  [][/\ \A id \in UserIds : \A e \in Users :
          (PutUsers(id, e) /\ ~EmailTaken(e.email, id))
            => UpdateContract(id, e, GetUsers, GetUsers')
     /\ \A id \in MaterialIds : \A e \in Materials :
          PutMaterials(id, e) => UpdateContract(id, e, GetMaterials, GetMaterials')
     /\ \A id \in ProductIds : \A e \in Products :
          PutProducts(id, e) => UpdateContract(id, e, GetProducts, GetProducts')
     /\ \A id \in OrderIds : \A e \in Orders :
          PutOrders(id, e) => UpdateContract(id, e, GetOrders, GetOrders')]_vars

\* The part of the update contract the routes keep: NotFound and no change
\* on a missing id for all four routes, replacement under the path id for
\* users and products.
UpdateRoutesKeepPathId ==
  [][/\ \A id \in UserIds : \A e \in Users :
          (PutUsers(id, e) /\ ~EmailTaken(e.email, id))
            => UpdateContract(id, e, GetUsers, GetUsers')
     /\ \A id \in ProductIds : \A e \in Products :
          PutProducts(id, e) => UpdateContract(id, e, GetProducts, GetProducts')
     /\ \A id \in MaterialIds : \A e \in Materials :
          (PutMaterials(id, e) /\ id \notin Ids(GetMaterials))
            => response'.status = 404 /\ GetMaterials' = GetMaterials
     /\ \A id \in OrderIds : \A e \in Orders :
          (PutOrders(id, e) /\ id \notin Ids(GetOrders))
            => response'.status = 404 /\ GetOrders' = GetOrders]_vars

MaterialAndProductRoutes ==
  {"POST /api/materials", "PUT /api/materials/:id", "DELETE /api/materials/:id",
   "POST /api/products", "PUT /api/products/:id", "DELETE /api/products/:id"}

\* C14: a create, update or delete of a material or a product leaves every
\* order, and so its stored totalCost, as it was; the totalCost of an
\* existing order changes only in an update of that order.
C14_OrderTotalsAreSnapshots ==
  [][/\ response'.route \in MaterialAndProductRoutes => dbOrders' = dbOrders
     /\ \A i \in DOMAIN dbOrders : \A j \in DOMAIN dbOrders' :
          (dbOrders[i].id = dbOrders'[j].id
             /\ dbOrders[i].total_cost # dbOrders'[j].total_cost)
            => \E e \in Orders : PutOrders(dbOrders[i].id, e)]_vars

\* A material has been updated while an order with a totalCost above zero
\* is stored.
C14_Witness ==
  /\ response.route = "PUT /api/materials/:id"
  /\ response.status = 200
  /\ \E i \in DOMAIN GetOrders : GetOrders[i].totalCost > 0

\* The previous request the server answered was a successful update of id
\* on the route.
JustUpdated(route, id) ==
  /\ response.status = 200
  /\ response.route = route
  /\ response.id = id

\* C17: two updates of the same existing entity that reach the server one
\* after the other both succeed, no conflict is reported, and the stored
\* entity is then the payload of the second.  For users the updates are
\* ones that take no other user's email.
C17_LastWriteWins ==
  [][/\ \A id \in UserIds : \A e2 \in Users :
          (JustUpdated("PUT /api/users/:id", id) /\ PutUsers(id, e2)
             /\ ~EmailTaken(e2.email, id))
            => /\ response'.status = 200
               /\ Listed(GetUsers', id) = <<[e2 EXCEPT !.id = id]>>
     /\ \A id \in MaterialIds : \A e2 \in Materials :
          (JustUpdated("PUT /api/materials/:id", id) /\ PutMaterials(id, e2))
            => /\ response'.status = 200
               /\ Listed(GetMaterials', id) = <<[e2 EXCEPT !.id = id]>>
     /\ \A id \in ProductIds : \A e2 \in Products :
          (JustUpdated("PUT /api/products/:id", id) /\ PutProducts(id, e2))
            => /\ response'.status = 200
               /\ Listed(GetProducts', id) = <<[e2 EXCEPT !.id = id]>>
     /\ \A id \in OrderIds : \A e2 \in Orders :
          (JustUpdated("PUT /api/orders/:id", id) /\ PutOrders(id, e2))
            => /\ response'.status = 200
               /\ Listed(GetOrders', id) = <<[e2 EXCEPT !.id = id]>>]_vars

\* What the routes keep of it: the second update is answered 200 like the
\* first, and what is stored is what the second update alone would store.
SecondUpdateIsAccepted ==
  [][/\ \A id \in UserIds : \A e2 \in Users :
          (JustUpdated("PUT /api/users/:id", id) /\ PutUsers(id, e2)
             /\ ~EmailTaken(e2.email, id))
            => /\ response'.status = 200
               /\ Listed(GetUsers', id) = <<[e2 EXCEPT !.id = id]>>
     /\ \A id \in MaterialIds : \A e2 \in Materials :
          (JustUpdated("PUT /api/materials/:id", id) /\ PutMaterials(id, e2))
            => /\ response'.status = 200
               /\ Listed(dbMaterials', id) = <<[id |-> id] @@ materialColumns(e2)>>
     /\ \A id \in ProductIds : \A e2 \in Products :
          (JustUpdated("PUT /api/products/:id", id) /\ PutProducts(id, e2))
            => /\ response'.status = 200
               /\ Listed(GetProducts', id) = <<[e2 EXCEPT !.id = id]>>
     /\ \A id \in OrderIds : \A e2 \in Orders :
          (JustUpdated("PUT /api/orders/:id", id) /\ PutOrders(id, e2))
            => /\ response'.status = 200
               /\ Listed(dbOrders', id) = <<[id |-> id] @@ orderColumns(e2)>>]_vars

EmailsUnique ==
  \A i \in DOMAIN dbUsers : \A j \in DOMAIN dbUsers :
    dbUsers[i].email = dbUsers[j].email => i = j

\* C19: no two rows of the users table hold the same email, before and after
\* every step, and a create or an update that would give a user the email of another row is
\* answered with an error and changes nothing.
C19_EmailsAreUnique ==
  [][/\ EmailsUnique
     /\ EmailsUnique'
     /\ response'.route = "POST /api/users" =>
          \A e \in Users :
            (EmailTaken(e.email, e.id) /\ PostUsers(e))
              => /\ response'.status = 500
                 /\ response'.body.error.code = "ER_DUP_ENTRY"
                 /\ dbUsers' = dbUsers
     /\ response'.route = "PUT /api/users/:id" =>
          \A id \in UserIds : \A e \in Users :
            (EmailTaken(e.email, id) /\ PutUsers(id, e))
              => /\ response'.status = IF id \in Ids(dbUsers) THEN 500 ELSE 404
                 /\ dbUsers' = dbUsers]_vars

\* An update that would give a user the email of the other stored user has
\* been rejected on the email key.
C19_Witness ==
  /\ response.route = "PUT /api/users/:id"
  /\ response.status = 500
  /\ response.body.error = ER_DUP_ENTRY("email")
  /\ Len(dbUsers) = 2
  /\ EmailsUnique

\* The rows of the users table that are the default admin account.
DefaultAdmins ==
  {i \in DOMAIN dbUsers :
     dbUsers[i].email = "admin@company.com" /\ dbUsers[i].role = "admin"}

\* C20: once the server has started, the users table holds the default admin
\* account (admin@company.com, role admin), and holds it once.
C20_DefaultAdminExistsAfterStart ==
  response.route = "start" => Cardinality(DefaultAdmins) = 1

\* What the seed keeps of it: a start never leaves the users table empty and
\* never adds a second default admin.
StartSeedsOnlyAnEmptyTable ==
  response.route = "start" => (dbUsers # <<>> /\ Cardinality(DefaultAdmins) <= 1)

(***************************************************************************)
(* Claims about the session                                                *)
(***************************************************************************)
\* The users of the store whose email and password are the submitted ones.
Matching(email, password) ==
  {u \in Range(dbUsers) : u.email = email /\ u.password = password}

\* C12: the session holds no user when the application starts, on the first
\* load and on every later one; a login attempt sets the session to a user
\* of the store whose email and password both equal the submitted ones,
\* case included, when there is one, and leaves the session as it is when
\* there is none; logout clears the session; the session is one user or
\* none.
C12_SessionLifecycle ==
  /\ currentUser = null
  /\ [][/\ Reload => currentUser' = null
        /\ \A email \in LoginEmails, password \in LoginPasswords :
             handleLogin(email, password) =>
               IF Matching(email, password) # {}
               THEN currentUser' \in Matching(email, password)
               ELSE currentUser' = currentUser
        /\ handleLogout => currentUser' = null
        /\ currentUser' = null \/ currentUser' \in Users]_vars

\* What the session keeps of it: login, failed login and logout are as
\* stated, and a reload starts the application with the session that
\* localStorage holds.
SessionFollowsLoginAndLogout ==
  [][/\ Reload => (currentUser' = currentUser /\ isLoggedIn' = (currentUser # null))
     /\ \A email \in LoginEmails, password \in LoginPasswords :
          handleLogin(email, password) =>
            IF Matching(email, password) # {}
            THEN currentUser' \in Matching(email, password) /\ isLoggedIn'
            ELSE currentUser' = currentUser /\ ~isLoggedIn'
     /\ handleLogout => (currentUser' = null /\ ~isLoggedIn')
     /\ currentUser' = null \/ currentUser' \in Users]_vars

\* The session's user is not an admin.
NonAdminSession ==
  /\ isLoggedIn
  /\ currentUser # null
  /\ currentUser.role # "admin"

\* The mounted page has a users request under way.
UserOperationUnderWay ==
  /\ inflight # Idle
  /\ ~inflight.detached
  /\ inflight.op \in {"getUsers", "createUser", "updateUser", "deleteUser"}

\* C13: while the session's user is not an admin, whatever page was shown
\* before, the navigation has no users entry, UsersPage is not past its
\* access check, and the page runs no user operation: it neither lists,
\* creates, edits nor deletes users and holds no list of them.
C13_UserManagementIsForAdmins ==
  NonAdminSession =>
    /\ "users" \notin navigation
    /\ ~AdminView
    /\ ~UserOperationUnderWay
    /\ users = <<>>

\* What the gate keeps of it: for a session that is not an admin's the
\* entry is absent, no handler of UsersPage can be taken, and the only
\* request the page sends is the list request of its mount.
NonAdminsGetAccessDenied ==
  NonAdminSession =>
    /\ "users" \notin navigation
    /\ ~AdminView
    /\ currentPage = "users" => ~dialog.isDialogOpen
    /\ editingUser = null
    /\ UserOperationUnderWay => inflight.op = "getUsers"

(***************************************************************************)
(* Claims about the forms of the pages                                     *)
(***************************************************************************)
\* Everything a submit handler could touch but the toast: the stores, the
\* session, the page's list, dialog and editing target, the call in flight.
ButTheToast ==
  <<varsDb, storageMaterials, storageProducts, currentUser, isLoggedIn, currentPage,
    users, editingUser, ordersPage, productsPage, dialog, inflight>>

\* The UsersPage form fails one of handleSubmit's two checks.
UserFormInvalid ==
  \/ ~includesAt(dialog.formData.email)
  \/ length(dialog.formData.password) < 6 /\ editingUser = null

\* C15: a submit of a user form whose email lacks the '@' or whose password
\* for a new user is shorter than 6, of an order form with no product line
\* and of a product form with no material line shows the error toast and
\* does nothing else: no request is sent, and the stores, the page's list,
\* the dialog with its form data and the editing target are as before.
C15_ValidationErrorsHaveNoSideEffects ==
  [][/\ (UsersHandleSubmit /\ UserFormInvalid)
          => (toast'.title = "Validation Error" /\ UNCHANGED ButTheToast)
     /\ (OrdersHandleSubmit /\ Len(dialog.formData.products) = 0)
          => (toast'.title = "Error" /\ UNCHANGED ButTheToast)
     /\ (ProductsHandleSubmit /\ Len(dialog.formData.materials) = 0)
          => (toast'.title = "Error" /\ UNCHANGED ButTheToast)]_vars

\* The user dialog holds an email without '@', its submit has been refused,
\* and nothing was sent or stored.
C15_Witness ==
  /\ toast.title = "Validation Error"
  /\ currentPage = "users"
  /\ dialog.isDialogOpen
  /\ dialog.formData.email = "bx"
  /\ inflight = Idle
  /\ Len(dbUsers) = 1

\* The same for the order form: its submit with no product line has been
\* refused.
OrderFormRefused ==
  /\ toast.title = "Error"
  /\ currentPage = "orders"
  /\ dialog.isDialogOpen
  /\ dialog.formData.products = <<>>
  /\ inflight = Idle

\* The same for the product form: its submit with no material line has been
\* refused.
ProductFormRefused ==
  /\ toast.title = "Error"
  /\ currentPage = "products"
  /\ dialog.isDialogOpen
  /\ dialog.formData.materials = <<>>
  /\ storageProducts = null

\* C16: a request of UsersPage or OrdersPage that the server rejects changes
\* no table; the page's continuation shows the failure toast, leaves the
\* list, the dialog with its form data and the editing target as they are,
\* and sends nothing again.
C16_FailedOperationsLeaveThePage ==
  [][/\ ((ServerHandle \/ OrdersServerHandle) /\ ~ok(response')) => UNCHANGED varsDb
     /\ (Resume /\ ~ok(inflight.answer))
          => /\ toast'.title \in {"Unable to load users", "Unable to save user",
                                  "Unable to delete user"}
             /\ UNCHANGED <<users, editingUser, dialog, varsDb>>
             /\ inflight' = Idle
     /\ (OrdersResume /\ ~ok(inflight.answer))
          => /\ toast'.title \in {"Unable to load data", "Unable to save order",
                                  "Unable to delete order"}
             /\ UNCHANGED <<ordersPage, dialog, varsDb>>
             /\ inflight' = Idle]_vars

\* The edit of an order that another client had deleted has been rejected:
\* the failure is shown, the dialog is still open on the order, the list
\* still holds it, and no call is in flight.
C16_Witness ==
  /\ toast.title = "Unable to save order"
  /\ currentPage = "orders"
  /\ dialog.isDialogOpen
  /\ ordersPage.editingOrder # null
  /\ ordersPage.editingOrder.id \in Ids(ordersPage.orders)
  /\ dbOrders = <<>>
  /\ inflight = Idle

\* The same for UsersPage: the create of a user with a stored email has
\* been rejected and the dialog still holds the form.
UserSaveRejected ==
  /\ toast.title = "Unable to save user"
  /\ currentPage = "users"
  /\ dialog.isDialogOpen
  /\ dialog.formData.email = "admin@company.com"
  /\ inflight = Idle

\* A save of the order form under way.
OrderSaveUnderWay ==
  /\ inflight # Idle
  /\ inflight.op \in {"createOrder", "updateOrder"}

\* C18: an order the order form saved with status completed carries a
\* completedAt, when it was created and when it was edited: in the request,
\* in the row of the orders table and in the page's list.
C18_CompletedOrdersHaveCompletedAt ==
  /\ OrderSaveUnderWay =>
       (inflight.arg.status = "completed" => inflight.arg.completedAt # undefined)
  /\ \A i \in DOMAIN dbOrders :
       dbOrders[i].status = "completed" => dbOrders[i].completed_at # null
  /\ \A i \in DOMAIN ordersPage.orders :
       ordersPage.orders[i].status = "completed"
         => ordersPage.orders[i].completedAt # undefined

\* An order created as pending has been edited to completed and stored with
\* a completedAt.
C18_Witness ==
  /\ inflight # Idle
  /\ inflight.op = "updateOrder"
  /\ inflight.stage = "answered"
  /\ ok(inflight.answer)
  /\ inflight.orders # <<>>
  /\ inflight.orders[1].status = "pending"
  /\ inflight.orders[1].completedAt = undefined
  /\ dbOrders # <<>>
  /\ dbOrders[1].status = "completed"
  /\ dbOrders[1].completed_at = ISO(1)

(***************************************************************************)
(* Claims about the server process                                         *)
(***************************************************************************)
\* C21: a request whose query is rejected is answered with an error and
\* leaves the server listening, so that the requests after it are served;
\* the process exits only when ensureSchema fails at startup, and a process
\* that exits has never listened and never will.
C21_FailedOperationsDoNotStopTheServer ==
  [][/\ server = "listening" => server' = "listening"
     /\ (server = "listening" /\ mysql = "down" /\ mysql' = "down")
          => /\ response'.status = 500
             /\ response'.body.error = ECONNREFUSED
             /\ varsDb' = varsDb
     /\ (server = "listening" /\ mysql = "up" /\ mysql' = "up")
          => /\ response'.route \in Routes
             /\ response'.status = 500 => response'.body.error # ECONNREFUSED
     /\ server' = "exited" => server = "exited" \/ (server = "starting" /\ mysql = "down")
     /\ server = "exited" => server' = "exited"
     /\ (server = "starting" /\ server' = "listening") => mysql = "up"]_vars

\* A request was rejected while the database was unreachable, and the server
\* listens.
C21_Witness ==
  /\ server = "listening"
  /\ response.status = 500
  /\ response.body.error = ECONNREFUSED

\* ensureSchema failed and the process exited.
StartupFailureIsFatal == server = "exited"

(***************************************************************************)
(* Claims about the order form                                             *)
(***************************************************************************)
\* The order `id` as the page listed it when the call was made.
ListedAtCall(call, id) == CHOOSE o \in Range(call.orders) : o.id = id

\* The update in flight was answered: the order the page listed with status
\* `from` is stored with status `to`.
Moved(from, to) ==
  /\ inflight.stage = "answered"
  /\ inflight.op = "updateOrder"
  /\ ok(inflight.answer)
  /\ ListedAtCall(inflight, inflight.arg.id).status = from
  /\ inflight.answer.body.status = to
  /\ \E i \in DOMAIN dbOrders :
       dbOrders[i].id = inflight.arg.id /\ dbOrders[i].status = to

\* C22: whatever status the stored order has and whatever status the form
\* holds, the page sends the edit with the form's status, the API stores it
\* and answers 200, and the page lists the order with that status; no
\* status of the order or of the form makes the page or the route refuse.
C22_AnyStatusTransitionIsSaved ==
  [][/\ (/\ dialog.isDialogOpen
          /\ ordersPage.editingOrder # null
          /\ Len(dialog.formData.products) # 0
          /\ OrdersHandleSubmit)
          => /\ inflight'.op = "updateOrder"
             /\ inflight'.arg.id = ordersPage.editingOrder.id
             /\ inflight'.arg.status = dialog.formData.status
     /\ (/\ inflight.stage = "sent"
          /\ inflight.op = "updateOrder"
          /\ inflight.arg.id \in Ids(dbOrders)
          /\ OrdersServerHandle)
          => /\ response'.status = 200
             /\ response'.body.status = inflight.arg.status
             /\ \A i \in DOMAIN dbOrders' :
                  dbOrders'[i].id = inflight.arg.id
                    => dbOrders'[i].status = inflight.arg.status
     /\ (/\ inflight.stage = "answered"
          /\ inflight.op = "updateOrder"
          /\ ok(inflight.answer)
          /\ ~inflight.detached
          /\ OrdersResume)
          => \A i \in DOMAIN ordersPage'.orders :
               ordersPage'.orders[i].id = inflight.arg.id
                 => ordersPage'.orders[i].status = inflight.arg.status]_vars

\* A backward move was saved: the completed order is pending again.
C22_Witness == Moved("completed", "pending")

\* C28: no stored order of a status other than completed has a completedAt,
\* and the edit of a completed order that leaves the status completed sends
\* the completedAt the order had.
C28_CompletedAtOnlyWhenCompleted ==
  [][/\ \A i \in DOMAIN dbOrders' :
          dbOrders'[i].status # "completed" => dbOrders'[i].completed_at = null
     /\ (/\ dialog.isDialogOpen
          /\ ordersPage.editingOrder # null
          /\ ordersPage.editingOrder.status = "completed"
          /\ dialog.formData.status = "completed"
          /\ Len(dialog.formData.products) # 0
          /\ OrdersHandleSubmit)
          => inflight'.arg.completedAt = ordersPage.editingOrder.completedAt]_vars

\* What holds of it: an order that is created with another status than
\* completed is stored without a completedAt.
CreatedOpenOrdersHaveNoCompletedAt ==
  [][(/\ inflight.stage = "sent"
      /\ inflight.op = "createOrder"
      /\ inflight.arg.status # "completed"
      /\ OrdersServerHandle
      /\ ok(response'))
      => /\ inflight.arg.completedAt = undefined
         /\ \A i \in DOMAIN dbOrders' :
              dbOrders'[i].id = inflight.arg.id => dbOrders'[i].completed_at = null]_vars

\* An order save of OrdersPage is under way.
OrderSaveSent ==
  /\ inflight.stage = "sent"
  /\ inflight.op \in {"createOrder", "updateOrder"}

\* C25: when the API server stores an order that OrdersPage saves, the
\* order's totalCost is calculateOrderCost of its lines over the products
\* and materials the store holds at that moment.
C25_TotalCostIsOfTheStoreAtSave ==
  [][(OrderSaveSent /\ OrdersServerHandle /\ ok(response'))
       => inflight.arg.totalCost =
            calculateOrderCost(inflight.arg.products, GetProducts, GetMaterials)]_vars

\* What holds of it: the totalCost sent is calculateOrderCost over the
\* products and materials the page loaded when it was mounted.
TotalCostIsOfTheLoadedData ==
  [][(/\ dialog.isDialogOpen
      /\ Len(dialog.formData.products) # 0
      /\ OrdersHandleSubmit)
      => inflight'.arg.totalCost =
           calculateOrderCost(dialog.formData.products, ordersPage.products,
                              ordersPage.materials)]_vars

\* C27: when a handler of OrdersPage resumes on a successful answer, no
\* other handler awaits, and another handler has set the page's list since
\* this one read it (the two operations overlapped and both succeeded), the
\* page lists exactly the orders the store holds.
C27_OverlappingOperationsKeepTheList ==
  [][(/\ inflight.stage = "answered"
      /\ ok(inflight.answer)
      /\ waiting = Idle
      /\ inflight.orders # ordersPage.orders
      /\ OrdersResume)
      => Ids(ordersPage'.orders) = Ids(dbOrders')]_vars

\* What holds of it: while no handler awaits, a page whose operations did
\* not overlap lists exactly the stored orders.
QuietPageListsTheStore ==
  (currentPage = "orders" /\ inflight = Idle) => Ids(ordersPage.orders) = Ids(dbOrders)

(***************************************************************************)
(* Claims about the pages over localStorage                                *)
(***************************************************************************)
\* The persisted collections are the lists the mounted pages hold.
InSync ==
  /\ getMaterials = tabs["t1"].materials
  /\ currentPage = "products" => getProducts = productsPage.products

\* C23: every create, edit and delete of MaterialsPage and of ProductsPage
\* leaves, in the step of the handler itself, the persisted collection equal
\* to the page's list, and with one instance of each page the two are equal
\* in every state between the handlers as well.
C23_EachMutationPersistsImmediately ==
  [][/\ \A formData \in MaterialForms :
          MaterialsHandleSubmit("t1", formData) => getMaterials' = tabs'["t1"].materials
     /\ \A id \in MaterialIds :
          MaterialsHandleDelete("t1", id) => getMaterials' = tabs'["t1"].materials
     /\ (currentPage = "products" /\ ProductsHandleSubmit)
          => getProducts' = productsPage'.products
     /\ \A id \in ProductIds :
          (currentPage = "products" /\ ProductsHandleDelete(id))
            => getProducts' = productsPage'.products
     /\ InSync
     /\ InSync']_vars

\* A material was deleted from a list of two, and a product is stored.
C23_Witness ==
  /\ toast.title = "Material deleted"
  /\ Len(tabs["t1"].materials) = 1
  /\ getMaterials = tabs["t1"].materials
  /\ Len(getProducts) = 1

\* Every stored material but the one of id `target` is stored after the
\* step as it was before.
OthersKept(target) ==
  \A m \in Range(getMaterials) : m.id # target => m \in Range(getMaterials')

\* C26: a save of a MaterialsPage instance, whichever instance made the
\* stored materials, leaves in the store every material other than the one
\* it creates, edits or deletes.
C26_SavesKeepOtherInstancesChanges ==
  [][\A t \in Tabs :
       /\ \A formData \in MaterialForms :
            MaterialsHandleSubmit(t, formData)
              => OthersKept(IF tabs[t].editingMaterial = null THEN ""
                            ELSE tabs[t].editingMaterial.id)
       /\ \A id \in MaterialIds :
            MaterialsHandleDelete(t, id) => OthersKept(id)]_vars

(***************************************************************************)
(* Claims about the stored users                                           *)
(***************************************************************************)
\* C24: while a session user is present the users table holds a user of
\* the same id and the same role.
C24_SessionUserIsStored ==
  currentUser # null =>
    \E i \in DOMAIN dbUsers :
      dbUsers[i].id = currentUser.id /\ dbUsers[i].role = currentUser.role

\* The session is the user handleLogin found in the store: the step of a
\* successful login leaves a session that is a stored user.
SessionIsStoredAtLogin ==
  [][(currentUser = null /\ currentUser' # null) => currentUser' \in Range(dbUsers')]_vars

\* The update of UsersPage.handleSubmit is sent or was answered.
UserEditUnderWay(call) == call # Idle /\ call.op = "updateUser"

\* C29: every stored password has at least 6 characters; an edit submitted
\* with a blank password carries the edited user's password, and an edit
\* submitted with a non-blank password of fewer than 6 characters is
\* refused with the validation toast and sends nothing.
C29_StoredPasswordsHaveSixCharacters ==
  [][/\ \A i \in DOMAIN dbUsers' : length(dbUsers'[i].password) >= 6
     /\ (/\ dialog.isDialogOpen
          /\ editingUser # null
          /\ includesAt(dialog.formData.email)
          /\ UsersHandleSubmit)
          => IF dialog.formData.password = ""
             THEN /\ UserEditUnderWay(inflight')
                  /\ inflight'.arg.password = editingUser.password
             ELSE IF length(dialog.formData.password) < 6
             THEN inflight' = Idle /\ toast' = Toast("Validation Error")
             ELSE /\ UserEditUnderWay(inflight')
                  /\ inflight'.arg.password = dialog.formData.password]_vars

\* What holds of it: a create with a password of fewer than 6 characters is
\* refused, and an edit with a blank password keeps the stored password.
CreatesAndBlankEditsKeepSixCharacters ==
  [][(/\ dialog.isDialogOpen
      /\ includesAt(dialog.formData.email)
      /\ UsersHandleSubmit)
      => /\ (editingUser = null /\ length(dialog.formData.password) < 6)
              => inflight' = Idle /\ toast' = Toast("Validation Error")
         /\ (editingUser # null /\ dialog.formData.password = "")
              => /\ UserEditUnderWay(inflight')
                 /\ inflight'.arg.password = editingUser.password]_vars

\* C30: the users table holds a user of role admin in every state.
C30_AnAdminAlwaysExists == \E i \in DOMAIN dbUsers : dbUsers[i].role = "admin"

\* What holds of it: the page deletes no row of the session's id while that
\* session lasts, so the users table is never empty.
UsersTableIsNeverEmpty == dbUsers # <<>>
====
